---- MODULE Spec2Model ----
(***************************************************************************)
(* Button / LED controller of the HW3 sketches.                            *)
(*                                                                         *)
(* Spec      : the mature interrupt-driven variant (src/unnamed/part_000): *)
(*             buttonISR, ISR(TIMER1_COMPA_vect), startTimer, stopTimer    *)
(*             and loop, the loop at statement granularity so that the two *)
(*             handlers can run between any two of its statements.         *)
(* SpecSeq, SpecLive, SpecAfter, SpecPeriod, SpecWrap : the same variant   *)
(*             under other presses: the counting sequence, a stop while    *)
(*             blinking (loop running on), presses after a stop, blinking  *)
(*             started from a larger count, millis() wrapping.             *)
(* SpecTorn  : the same variant, loop loading lastDuration byte by byte.   *)
(* SpecFine  : the same variant, the flash statements of loop apart.       *)
(* SpecMain  : the all-in-handler variant (src/HWs/HW3/HW3/src/main.cpp).  *)
(* SpecPoll  : the Timer2 polling variant (src/HWs/HW3/HW3/src/RoniMain.cpp*)
(*             lines 88-196): TIMER2_COMPA_vect, getSystemMs and loop.     *)
(* SpecOver  : the mature variant, presses that leave a stop and a start   *)
(*             pending together, and presses during the stop branch.       *)
(* SpecInterval : the Timer2 variant from a counted number of presses and  *)
(*             a held button, the clock running over the flash instants.   *)
(*                                                                         *)
(* All run on the same ATmega328P, so they share the hardware state: the   *)
(* millisecond clock, the button pin, the LED pin and the Timer1 registers.*)
(*                                                                         *)
(* Humidity gateway of the same repository, on boards of its own.          *)
(*                                                                         *)
(* SpecUart  : the UART gateway: the Nano node (src/unnamed/part_002) and  *)
(*             the WROVER web hub (src/unnamed/part_001, lines 738-953),   *)
(*             the two serial directions as queues of lines.               *)
(* SpecReset : the same, every reading valid and only resets requested,    *)
(*             with the fairness of the two loops.                         *)
(* SpecTelemetry : one telemetry line printed by the Nano and parsed by    *)
(*             the hub, from any triple of one-decimal values.             *)
(* SpecI2c   : the I2C gateway: the ESP32 master (src/unnamed/part_001,    *)
(*             lines 86-736) with a WiFi link that comes and goes, and the *)
(*             Nano slave (src/Arduino_Nano/Arduino_Nano.ino).             *)
(* SpecFrames: the I2C gateway with any frame arriving at the slave.       *)
(* SpecParse : the hub reading lines of every shape twice.                 *)
(* SpecSensors : the sensor tasks of the two Nano nodes, readings that are *)
(*             not a number included.                                      *)
(* SpecRequest : the I2C Nano alone, currentHumidity stored byte by byte   *)
(*             and read requests of the master at any point.               *)
(***************************************************************************)
EXTENDS Integers, Sequences, FiniteSets, TLC

VARIABLES
    \* ---- hardware ----
    now,            \* millis()
    pin,            \* level of buttonPin
    led,            \* level of ledPin
    TCCR1A, TCCR1B, \* Timer1 control registers, as the set of bits that are set
    TCNT1,          \* Timer1 counter
    OCR1A,          \* Timer1 compare value (16 bits)
    TIMSK1,         \* Timer1 interrupt mask, as the set of bits that are set
    OCF1A,          \* Timer1 compare-match flag (TIFR1): a match is pending
    \* ---- part_000 ----
    PressCounter, pressTime, lastISRTime, lastDuration,
    actionShort, actionStart, actionStop,
    Blink, feedbackLedOn, lastFlashStart,
    pc,             \* the statement loop() executes next
    serialLine,     \* the line the last step printed on Serial, <<>> if none
    \* ---- main.cpp ----
    pressStartTime, shortPressCount,
    \* ---- observers (history of the run, written but never read by the program) ----
    lastEdge,       \* what the last button interrupt did ("none": none accepted since boot)
    acceptedAt,     \* millis() of the last accepted transition, of boot if none
    scen,           \* progress of the run "three counted Shorts, one Medium" from boot
    stops,          \* stop dispatches in succession (no other dispatch between), max 2
    stopSnap,       \* the reset fields as the first stop of the succession left them
    stopped,        \* a stop was dispatched and blinking was not re-enabled since
    shortsSinceLong,\* Short releases counted since the last Long release (since boot if none)
    rdHeld,         \* values lastDuration held while loop() was loading it (line 160)
    msHeld,         \* values systemMs held during the running call of getSystemMs
    \* ---- part_000, loop() with the load of lastDuration byte by byte ----
    rdBuf,          \* bytes of lastDuration loaded so far, low byte first
    \* ---- RoniMain.cpp, Timer2 variant (its PressCounter, pressTime, Blink and ----
    \* ---- lastFlashStart are the variables of the same names above) ----
    systemMs,       \* the millisecond counter TIMER2_COMPA_vect increments
    sregI,          \* global interrupt enable bit of SREG
    OCF2A,          \* Timer2 compare-match flag: a tick is pending
    tCopy,          \* getSystemMs: bytes of systemMs copied into t so far, low byte first
    loopNow,        \* loop(): the local now
    pressed, blinkInterval, ledOn,
    ppc,            \* the statement the Timer2 variant executes next
    \* ---- humidity gateway over UART (part_002 and WROVER_Web_Hub.ino of part_001) ----
    nano,           \* Nano: currentHum, minHum, maxHum, the LCD, the sensor interval, the task, h
    hub,            \* ESP32: currentHum, minHum, maxHum
    toNano,         \* lines sent on Serial2 by the ESP32 and not yet read by the Nano
    toHub,          \* lines sent on Serial by the Nano and not yet read by the ESP32
    resetHum,       \* observer: currentHum of the Nano at the R:1 it has just processed
    sinceReset,     \* observer: the valid readings since the last R:1 (the one current at it
                    \* first), since boot if none
    \* ---- humidity gateway over I2C (ESP32.ino of part_001 and Arduino_Nano.ino) ----
    esp32,          \* ESP32: wifiConnected, sensorData, the EEPROM, position in setup/loop
    wifiStatus,     \* WiFi.status() == WL_CONNECTED
    wire,           \* the frame in the Nano's receive buffer, pending while not yet handled
    nanoI2c,        \* Nano: currentHumidity (value and bytes in memory), message[], the LCD,
                    \* the sensor interval, humidity, position in readHumiditySensor, bytes sent
    \* ---- observer of part_000's loop ----
    stopOverStart   \* the last test of actionStop in loop() found actionStop and actionStart set

hwVars     == <<now, pin, led, TCCR1A, TCCR1B, TCNT1, OCR1A, TIMSK1, OCF1A>>
timerRegs  == <<TCCR1A, TCCR1B, TCNT1, OCR1A, TIMSK1>>
isrVars    == <<PressCounter, pressTime, lastISRTime, lastDuration,
                actionShort, actionStart, actionStop>>
loopVars   == <<Blink, feedbackLedOn, lastFlashStart, pc>>
matureVars == <<isrVars, loopVars, serialLine>>
mainVars   == <<pressStartTime, shortPressCount>>
obsVars    == <<lastEdge, acceptedAt, scen, stops, stopSnap, stopped,
                shortsSinceLong, rdHeld>>
pollVars   == <<systemMs, sregI, OCF2A, tCopy, loopNow, pressed, blinkInterval, ledOn, ppc,
                msHeld>>
uartVars   == <<nano, hub, toNano, toHub, resetHum, sinceReset>>
i2cVars    == <<esp32, wifiStatus, wire, nanoI2c>>
gwVars     == <<uartVars, i2cVars>>
extVars    == <<rdBuf, pollVars, gwVars, stopOverStart>>
vars       == <<hwVars, matureVars, mainVars, obsVars, extVars>>
buttonVars == <<hwVars, matureVars, mainVars, obsVars, rdBuf, pollVars, stopOverStart>>

----------------------------------------------------------------------------
(* Program constants *)

LOW  == 0
HIGH == 1

SHORT_PRESS_TIME == 1500
LONG_PRESS_TIME  == 4000
DEBOUNCE_TIME    == 50
FLASH_TIME       == 200
TICKS_HALF_SEC   == 7812

Pow16 == 65536

(* An unsigned long (32 bits) is the pair <<high word, low word>> of its   *)
(* 16-bit halves, so that arithmetic modulo 2^32 is computed as the target *)
(* computes it.                                                            *)
U32(n) == <<n \div Pow16, n % Pow16>>

\* the number an unsigned long below 2^31 stands for
Val(x) == x[1] * Pow16 + x[2]

\* A subtraction that yields 0 instead of wrapping when a is below b
Sub32Saturating(a, b) ==
    IF a[1] < b[1] \/ (a[1] = b[1] /\ a[2] < b[2])
    THEN <<0, 0>>
    ELSE LET lo     == a[2] - b[2]
             borrow == IF lo < 0 THEN 1 ELSE 0
         IN  <<a[1] - b[1] - borrow, (lo + Pow16) % Pow16>>

\* unsigned long subtraction, modulo 2^32
Sub32(a, b) ==
    LET lo     == a[2] - b[2]
        borrow == IF lo < 0 THEN 1 ELSE 0
        hi     == a[1] - b[1] - borrow
    IN  <<(hi + Pow16) % Pow16, (lo + Pow16) % Pow16>>

\* unsigned long addition, modulo 2^32
Add32(a, b) ==
    LET lo == a[2] + b[2]
        hi == a[1] + b[1] + lo \div Pow16
    IN  <<hi % Pow16, lo % Pow16>>

\* The four bytes of an unsigned long, low byte first
Bytes(x) == <<x[2] % 256, x[2] \div 256, x[1] % 256, x[1] \div 256>>

\* The unsigned long made of four bytes, low byte first
FromBytes(b) == <<b[3] + 256 * b[4], b[1] + 256 * b[2]>>

\* unsigned long comparison
Lt32(a, b) == a[1] < b[1] \/ (a[1] = b[1] /\ a[2] < b[2])

\* int (16 bits, two's complement) increment
IncInt16(x) == IF x = 32767 THEN -32768 ELSE x + 1

\* uint8_t increment
IncU8(x) == (x + 1) % 256

\* value stored in a 16-bit register
Reg16(x) == x % Pow16

----------------------------------------------------------------------------
(* Bounds: the instants at which the environment acts.                     *)
(* A grid of MaxGrid debounce intervals for quick presses, one instant one *)
(* millisecond short of a grid point, and a press held from the last grid  *)
(* point and released around the classification thresholds.                *)

MaxGrid == 3

\* Counted short presses the environment makes before a stop
MaxPress == 3

Grid == {DEBOUNCE_TIME * k : k \in 0..MaxGrid}

HoldStart == DEBOUNCE_TIME * MaxGrid

HoldOffsets == {1499, 1500, 1550, 3999, 4000, 4050}

Instants == Grid \cup {2 * DEBOUNCE_TIME - 1} \cup {HoldStart + d : d \in HoldOffsets}

\* main.cpp has no debounce: a quick press, a press held to the first
\* threshold, and a second press held to the second threshold
MainInstants == {0, 50, 100, 1599, 1600, 1650, 5650, 5651}

\* The sequence scenario: MaxPress quick presses on the debounce grid, a
\* press held 1500 ms, and a last press held 4000 ms
SeqHoldStart == DEBOUNCE_TIME * (2 * MaxPress + 1)

SeqInstants ==
    {DEBOUNCE_TIME * k : k \in 0..(2 * MaxPress + 1)}
        \cup {SeqHoldStart + SHORT_PRESS_TIME, SeqHoldStart + SHORT_PRESS_TIME + DEBOUNCE_TIME,
              SeqHoldStart + SHORT_PRESS_TIME + DEBOUNCE_TIME + LONG_PRESS_TIME}

\* A stop while blinking: a quick press, a press held 1500 ms, a press held 4000 ms
LiveInstants ==
    {DEBOUNCE_TIME * k : k \in 0..3}
        \cup {3 * DEBOUNCE_TIME + SHORT_PRESS_TIME, 4 * DEBOUNCE_TIME + SHORT_PRESS_TIME,
              4 * DEBOUNCE_TIME + SHORT_PRESS_TIME + LONG_PRESS_TIME}

\* The same presses, followed by one more quick press
\* a Long press, a Medium press after it, then a quick press and a second
\* Medium press
OverInstants ==
    {0, DEBOUNCE_TIME, DEBOUNCE_TIME + LONG_PRESS_TIME, 2 * DEBOUNCE_TIME + LONG_PRESS_TIME,
     2 * DEBOUNCE_TIME + LONG_PRESS_TIME + SHORT_PRESS_TIME}
        \cup {2 * DEBOUNCE_TIME + LONG_PRESS_TIME + SHORT_PRESS_TIME + DEBOUNCE_TIME * k : k \in 1..3}
        \cup {5 * DEBOUNCE_TIME + LONG_PRESS_TIME + 2 * SHORT_PRESS_TIME}

AfterInstants ==
    LiveInstants
        \cup {4 * DEBOUNCE_TIME + SHORT_PRESS_TIME + LONG_PRESS_TIME + DEBOUNCE_TIME * k : k \in 1..2}

\* Largest count of short presses taken before blinking is started
MaxCount == 9

\* The instant at which the flash of the last counted press has run out
PeriodStart == 2 * DEBOUNCE_TIME * MaxCount + FLASH_TIME

\* Blinking started from a count: a press held 1500 ms, then a press held 4000 ms
PeriodInstants ==
    {PeriodStart, PeriodStart + SHORT_PRESS_TIME, PeriodStart + SHORT_PRESS_TIME + DEBOUNCE_TIME,
     PeriodStart + SHORT_PRESS_TIME + DEBOUNCE_TIME + LONG_PRESS_TIME}

\* millis() 256 ms before it wraps: 0xFFFFFF00
WrapBase == <<Pow16 - 1, Pow16 - 256>>

\* Instants around the wrap, in ms after WrapBase: a quick press, a press at
\* 0xFFFFFFF0 with transitions at 0x00000010 and 0x00000022, a press held
\* 1500 ms and a press held 4000 ms
WrapOffsets ==
    {0, DEBOUNCE_TIME, 240, 272, 240 + DEBOUNCE_TIME, 240 + 2 * DEBOUNCE_TIME,
     240 + 2 * DEBOUNCE_TIME + SHORT_PRESS_TIME,
     240 + 3 * DEBOUNCE_TIME + SHORT_PRESS_TIME,
     240 + 3 * DEBOUNCE_TIME + SHORT_PRESS_TIME + LONG_PRESS_TIME}

\* Timer2 ticks taken after the initial instant of the Timer2 variant
MaxTicks == 2

\* Releases 50 ms and 305 ms after boot (durations that differ in two bytes),
\* a press held 1500 ms, a press held 4000 ms
TornInstants ==
    {0, DEBOUNCE_TIME, DEBOUNCE_TIME + 255, 2 * DEBOUNCE_TIME + 255,
     2 * DEBOUNCE_TIME + 255 + SHORT_PRESS_TIME,
     3 * DEBOUNCE_TIME + 255 + SHORT_PRESS_TIME,
     3 * DEBOUNCE_TIME + 255 + SHORT_PRESS_TIME + LONG_PRESS_TIME}

Later(instants, t) == {u \in instants : u > t}

NextInstant(instants, t) ==
    CHOOSE u \in Later(instants, t) : \A v \in Later(instants, t) : u <= v

----------------------------------------------------------------------------
(* Hardware *)

ClockBits == {"CS12", "CS11", "CS10"}

Timer1Running == TCCR1B \cap ClockBits # {}

\* A compare match is flagged and its interrupt is enabled
Timer1IntPending == OCF1A /\ "OCIE1A" \in TIMSK1

NoLine == <<>>

\* millis() advances to the next instant
TickOn(instants) ==
    /\ Later(instants, Val(now)) # {}
    /\ ~Timer1IntPending
    /\ now' = U32(NextInstant(instants, Val(now)))
    /\ serialLine' = NoLine
    /\ UNCHANGED <<pin, led, timerRegs, OCF1A, isrVars, loopVars, mainVars, extVars, obsVars>>

Tick == TickOn(Instants)

TickMain == TickOn(MainInstants)

TickSeq == TickOn(SeqInstants)

TickLive == TickOn(LiveInstants)

TickAfter == TickOn(AfterInstants)

TickOver == TickOn(OverInstants)

TickTorn == TickOn(TornInstants)

\* The milliseconds from WrapBase to x, for x taken on the instants around the wrap
Off(x) == IF x[1] = Pow16 - 1 THEN x[2] - (Pow16 - 256) ELSE x[1] * Pow16 + x[2] + 256

\* millis() advances to the next instant around the wrap
TickWrap ==
    /\ Later(WrapOffsets, Off(now)) # {}
    /\ ~Timer1IntPending
    /\ now' = Add32(WrapBase, U32(NextInstant(WrapOffsets, Off(now))))
    /\ serialLine' = NoLine
    /\ UNCHANGED <<pin, led, timerRegs, OCF1A, isrVars, loopVars, mainVars, extVars, obsVars>>

TickPeriod == TickOn(PeriodInstants)

\* Timer1 counts up to the compare value
Timer1Count ==
    /\ Timer1Running
    /\ ~Timer1IntPending
    /\ TCNT1 # OCR1A
    /\ TCNT1' = IF TCNT1 < OCR1A THEN OCR1A ELSE 0
    /\ serialLine' = NoLine
    /\ UNCHANGED <<now, pin, led, TCCR1A, TCCR1B, OCR1A, TIMSK1, OCF1A,
                   isrVars, loopVars, mainVars, extVars, obsVars>>

\* CTC mode: the tick after the compare value clears the counter and raises the flag
Timer1Match ==
    /\ Timer1Running
    /\ TCNT1 = OCR1A
    /\ TCNT1' = 0
    /\ OCF1A' = TRUE
    /\ serialLine' = NoLine
    /\ UNCHANGED <<now, pin, led, TCCR1A, TCCR1B, OCR1A, TIMSK1,
                   isrVars, loopVars, mainVars, extVars, obsVars>>

----------------------------------------------------------------------------
(* part_000: the handlers *)

\* Classification with the boundaries taken as <=
ClassifyInclusive(duration) ==
    IF ~Lt32(U32(SHORT_PRESS_TIME), duration) THEN "Short"
    ELSE IF ~Lt32(U32(LONG_PRESS_TIME), duration) THEN "Medium"
    ELSE "Long"

\* The three-way classification of buttonISR
Classify(duration) ==
    IF Lt32(duration, U32(SHORT_PRESS_TIME)) THEN "Short"
    ELSE IF Lt32(duration, U32(LONG_PRESS_TIME)) THEN "Medium"
    ELSE "Long"

\* Debounce check that also discards a transition exactly DEBOUNCE_TIME later
BouncedInclusive(t, last) == ~Lt32(U32(DEBOUNCE_TIME), Sub32(t, last))

\* The debounce check of buttonISR: TRUE when the transition is discarded
Bounced(t, last) == Lt32(Sub32(t, last), U32(DEBOUNCE_TIME))

\* Counting without the guard
CountsShortAlways == TRUE

\* The guard on counting a Short press
CountsShort == ~Blink

\* Progress of the run Short, Short, Short, Medium (4 = complete, -1 = left)
ScenAfter(s, event) ==
    CASE event = "Short"        -> IF s \in 0..2 THEN s + 1 ELSE -1
      [] event = "ShortIgnored" -> IF s = 4 THEN 4 ELSE -1
      [] event = "Medium"       -> IF s \in 3..4 THEN 4 ELSE -1
      [] event = "Long"         -> -1
      [] OTHER                  -> s

\* A retriggering debounce: the discarded transition restarts the window
DiscardBounceRetrigger ==
    /\ lastISRTime' = now
    /\ UNCHANGED <<PressCounter, pressTime, lastDuration, actionShort, actionStart, actionStop>>

\* The early return of buttonISR on a transition inside the window
DiscardBounce == UNCHANGED isrVars

\* A change of the button pin and the run of buttonISR it triggers
buttonISR ==
    /\ pin' = 1 - pin
    /\ serialLine' = NoLine
    /\ UNCHANGED <<now, led, timerRegs, OCF1A, loopVars, mainVars, extVars, stops, stopSnap, stopped>>
    /\ IF Bounced(now, lastISRTime)
       THEN /\ lastEdge' = IF lastEdge = "none" THEN "none" ELSE "rejected"
            /\ DiscardBounce
            /\ UNCHANGED <<acceptedAt, scen, shortsSinceLong, rdHeld>>
       ELSE /\ lastISRTime' = now
            /\ acceptedAt' = now
            /\ IF pin' = HIGH
               THEN /\ pressTime' = now
                    /\ lastEdge' = "PressStarted"
                    /\ UNCHANGED <<PressCounter, lastDuration, actionShort,
                                   actionStart, actionStop, scen,
                                   shortsSinceLong, rdHeld>>
               ELSE LET duration == Sub32(now, pressTime)
                        class    == Classify(duration)
                        event    == IF class = "Short" /\ ~CountsShort
                                    THEN "ShortIgnored" ELSE class
                    IN  /\ lastDuration' = duration
                        /\ lastEdge' = event
                        /\ scen' = ScenAfter(scen, event)
                        /\ shortsSinceLong' = CASE event = "Short" -> shortsSinceLong + 1
                                                 [] event = "Long"  -> 0
                                                 [] OTHER           -> shortsSinceLong
                        /\ rdHeld' = IF pc = "short_rd" THEN rdHeld \cup {duration}
                                                        ELSE rdHeld
                        /\ UNCHANGED pressTime
                        /\ CASE event = "Short" ->
                                   /\ PressCounter < MaxPress
                                   /\ PressCounter' = IncInt16(PressCounter)
                                   /\ actionShort' = TRUE
                                   /\ UNCHANGED <<actionStart, actionStop>>
                             [] event = "ShortIgnored" ->
                                   UNCHANGED <<PressCounter, actionShort, actionStart, actionStop>>
                             [] event = "Medium" ->
                                   /\ actionStart' = TRUE
                                   /\ UNCHANGED <<PressCounter, actionShort, actionStop>>
                             [] event = "Long" ->
                                   /\ actionStop' = TRUE
                                   /\ UNCHANGED <<PressCounter, actionShort, actionStart>>

\* A compare handler that also withdraws a pending start request
Timer1ISRClearsStart ==
    /\ Timer1IntPending
    /\ OCF1A' = FALSE
    /\ led' = IF Blink THEN 1 - led ELSE led
    /\ actionStart' = FALSE
    /\ serialLine' = NoLine
    /\ UNCHANGED <<now, pin, timerRegs, PressCounter, pressTime, lastISRTime, lastDuration,
                   actionShort, actionStop, loopVars, mainVars, extVars, obsVars>>

\* A compare handler that disables its own interrupt after one toggle
Timer1ISROneShot ==
    /\ Timer1IntPending
    /\ OCF1A' = FALSE
    /\ led' = IF Blink THEN 1 - led ELSE led
    /\ TIMSK1' = TIMSK1 \ {"OCIE1A"}
    /\ serialLine' = NoLine
    /\ UNCHANGED <<now, pin, TCCR1A, TCCR1B, TCNT1, OCR1A, isrVars, loopVars, mainVars,
                   extVars, obsVars>>

\* ISR(TIMER1_COMPA_vect): entered when a match is pending and enabled
Timer1ISR ==
    /\ Timer1IntPending
    /\ OCF1A' = FALSE
    /\ led' = IF Blink THEN 1 - led ELSE led
    /\ serialLine' = NoLine
    /\ UNCHANGED <<now, pin, timerRegs, isrVars, loopVars, mainVars, extVars, obsVars>>

----------------------------------------------------------------------------
(* part_000: startTimer and stopTimer, each one critical section *)

\* Compare value without the -1 of the CTC period
CompareValueNoMinusOne(counts) == Reg16(TICKS_HALF_SEC * counts)

\* The compare value startTimer stores in OCR1A
CompareValue(counts) == Reg16(TICKS_HALF_SEC * counts - 1)

startTimer(counts) ==
    LET c == IF counts <= 0 THEN 1 ELSE counts
    IN  /\ TCCR1A' = {}
        /\ TCCR1B' = {"WGM12", "CS12", "CS10"}
        /\ TCNT1' = 0
        /\ OCR1A' = CompareValue(c)
        /\ TIMSK1' = TIMSK1 \cup {"OCIE1A"}

\* stopTimer that forgets to clear the counter of short presses
stopTimerKeepsCount ==
    /\ TIMSK1' = TIMSK1 \ {"OCIE1A"}
    /\ TCCR1B' = {}
    /\ TCCR1A' = {}
    /\ TCNT1' = 0
    /\ led' = LOW
    /\ PressCounter' = PressCounter
    /\ Blink' = FALSE
    /\ feedbackLedOn' = FALSE

\* stopTimer that flips the interrupt-enable bit instead of clearing it
stopTimerXorMask ==
    /\ TIMSK1' = IF "OCIE1A" \in TIMSK1 THEN TIMSK1 \ {"OCIE1A"} ELSE TIMSK1 \cup {"OCIE1A"}
    /\ TCCR1B' = {}
    /\ TCCR1A' = {}
    /\ TCNT1' = 0
    /\ led' = LOW
    /\ PressCounter' = 0
    /\ Blink' = FALSE
    /\ feedbackLedOn' = FALSE

\* stopTimer that only stops the clock, as stopSystem of main.cpp does
stopTimerClockOnly ==
    /\ TIMSK1' = TIMSK1
    /\ TCCR1B' = TCCR1B \ ClockBits
    /\ TCCR1A' = TCCR1A
    /\ TCNT1' = TCNT1
    /\ led' = LOW
    /\ PressCounter' = 0
    /\ Blink' = Blink
    /\ feedbackLedOn' = feedbackLedOn

\* stopTimer that leaves the LED as it is
stopTimerKeepsLed ==
    /\ TIMSK1' = TIMSK1 \ {"OCIE1A"}
    /\ TCCR1B' = {}
    /\ TCCR1A' = {}
    /\ TCNT1' = 0
    /\ led' = led
    /\ PressCounter' = 0
    /\ Blink' = FALSE
    /\ feedbackLedOn' = FALSE

stopTimer ==
    /\ TIMSK1' = TIMSK1 \ {"OCIE1A"}
    /\ TCCR1B' = {}
    /\ TCCR1A' = {}
    /\ TCNT1' = 0
    /\ led' = LOW
    /\ PressCounter' = 0
    /\ Blink' = FALSE
    /\ feedbackLedOn' = FALSE

\* The fields a stop resets
ResetFields == [PressCounter |-> PressCounter, Blink |-> Blink,
                feedbackLedOn |-> feedbackLedOn, led |-> led,
                TCCR1A |-> TCCR1A, TCCR1B |-> TCCR1B, TCNT1 |-> TCNT1,
                TIMSK1 |-> TIMSK1]

----------------------------------------------------------------------------
(* part_000: loop(), one action per statement; a Serial output is taken    *)
(* together with the statement before it.  A pending, enabled Timer1       *)
(* interrupt is served before the next statement, except where the         *)
(* statement masks interrupts (noInterrupts, digitalWrite).                *)

hwIdle == UNCHANGED <<now, pin, OCF1A>>

\* if (actionStop)
LoopStopTest ==
    /\ pc = "stop_test"
    /\ ~Timer1IntPending
    /\ pc' = IF actionStop THEN "stop_clr_stop" ELSE "short_test"
    /\ stopOverStart' = (actionStop /\ actionStart)
    /\ serialLine' = NoLine
    /\ hwIdle
    /\ UNCHANGED <<led, timerRegs, isrVars, Blink, feedbackLedOn, lastFlashStart,
                   mainVars, rdBuf, pollVars, gwVars, obsVars>>

\* actionStop = false;
LoopStopClearStop ==
    /\ pc = "stop_clr_stop"
    /\ ~Timer1IntPending
    /\ actionStop' = FALSE
    /\ pc' = "stop_clr_start"
    /\ serialLine' = NoLine
    /\ hwIdle
    /\ UNCHANGED <<led, timerRegs, PressCounter, pressTime, lastISRTime, lastDuration,
                   actionShort, actionStart, Blink, feedbackLedOn, lastFlashStart,
                   mainVars, extVars, obsVars>>

\* A stop branch that leaves a pending start request in place
LoopStopKeepsStart ==
    /\ pc = "stop_clr_start"
    /\ ~Timer1IntPending
    /\ serialLine' = <<"OFF", lastDuration>>
    /\ pc' = "stop_call"
    /\ hwIdle
    /\ UNCHANGED <<led, timerRegs, isrVars, Blink, feedbackLedOn, lastFlashStart,
                   mainVars, extVars, obsVars>>

\* actionStart = false; Serial.print("OFF: Duration "); Serial.print(lastDuration); ...
LoopStopClearStart ==
    /\ pc = "stop_clr_start"
    /\ ~Timer1IntPending
    /\ actionStart' = FALSE
    /\ serialLine' = <<"OFF", lastDuration>>
    /\ pc' = "stop_call"
    /\ hwIdle
    /\ UNCHANGED <<led, timerRegs, PressCounter, pressTime, lastISRTime, lastDuration,
                   actionShort, actionStop, Blink, feedbackLedOn, lastFlashStart,
                   mainVars, extVars, obsVars>>

\* stopTimer();
LoopStopCall ==
    /\ pc = "stop_call"
    /\ stopTimer
    /\ pc' = "short_test"
    /\ serialLine' = NoLine
    /\ stops' = IF stops < 2 THEN stops + 1 ELSE 2
    /\ stopSnap' = IF stops = 0 THEN ResetFields' ELSE stopSnap
    /\ stopped' = TRUE
    /\ hwIdle
    /\ UNCHANGED <<OCR1A, pressTime, lastISRTime, lastDuration,
                   actionShort, actionStart, actionStop, lastFlashStart,
                   mainVars, extVars, lastEdge, acceptedAt, scen, shortsSinceLong, rdHeld>>

\* if (actionShort)
LoopShortTest ==
    /\ pc = "short_test"
    /\ ~Timer1IntPending
    /\ pc' = IF actionShort THEN "short_clr" ELSE "flash_test"
    /\ serialLine' = NoLine
    /\ hwIdle
    /\ UNCHANGED <<led, timerRegs, isrVars, Blink, feedbackLedOn, lastFlashStart,
                   mainVars, extVars, obsVars>>

\* actionShort = false; Serial.print("SHORT PRESS: Duration "); ... Serial.println(PressCounter);
LoopShortClear ==
    /\ pc = "short_clr"
    /\ ~Timer1IntPending
    /\ actionShort' = FALSE
    /\ serialLine' = <<"SHORT", lastDuration, PressCounter>>
    /\ pc' = "short_flash"
    /\ hwIdle
    /\ UNCHANGED <<led, timerRegs, PressCounter, pressTime, lastISRTime, lastDuration,
                   actionStart, actionStop, Blink, feedbackLedOn, lastFlashStart,
                   mainVars, extVars, obsVars>>

\* digitalWrite(ledPin, HIGH); feedbackLedOn = true; lastFlashStart = millis();
LoopShortFlash ==
    /\ pc = "short_flash"
    /\ led' = HIGH
    /\ feedbackLedOn' = TRUE
    /\ lastFlashStart' = now
    /\ pc' = "flash_test"
    /\ serialLine' = NoLine
    /\ stops' = 0
    /\ hwIdle
    /\ UNCHANGED <<timerRegs, isrVars, Blink, mainVars, extVars,
                   lastEdge, acceptedAt, scen, shortsSinceLong, rdHeld, stopSnap, stopped>>

\* A flash ended at the first test, whatever time has passed
FlashExpiredAtOnce == feedbackLedOn

\* The flash is over
FlashExpired == feedbackLedOn /\ ~Lt32(Sub32(now, lastFlashStart), U32(FLASH_TIME))

\* if (feedbackLedOn && (millis() - lastFlashStart >= 200)) { ... }
LoopFlashTimeout ==
    /\ pc = "flash_test"
    /\ IF FlashExpired
       THEN led' = LOW /\ feedbackLedOn' = FALSE
       ELSE UNCHANGED <<led, feedbackLedOn>>
    /\ pc' = "start_test"
    /\ serialLine' = NoLine
    /\ hwIdle
    /\ UNCHANGED <<timerRegs, isrVars, Blink, lastFlashStart, mainVars, extVars, obsVars>>

\* if (actionStart)
LoopStartTest ==
    /\ pc = "start_test"
    /\ ~Timer1IntPending
    /\ pc' = IF actionStart THEN "start_clr" ELSE "stop_test"
    /\ serialLine' = NoLine
    /\ hwIdle
    /\ UNCHANGED <<led, timerRegs, isrVars, Blink, feedbackLedOn, lastFlashStart,
                   mainVars, extVars, obsVars>>

\* actionStart = false;
LoopStartClear ==
    /\ pc = "start_clr"
    /\ ~Timer1IntPending
    /\ actionStart' = FALSE
    /\ pc' = "start_if"
    /\ serialLine' = NoLine
    /\ hwIdle
    /\ UNCHANGED <<led, timerRegs, PressCounter, pressTime, lastISRTime, lastDuration,
                   actionShort, actionStop, Blink, feedbackLedOn, lastFlashStart,
                   mainVars, extVars, obsVars>>

\* Start condition that forgets the count
StartCondAnyCount == ~Blink

\* Start condition that forgets that the LED already blinks
StartCondAnyBlink == PressCounter > 0

\* The condition under which a Medium press starts the blinking
StartCond == ~Blink /\ PressCounter > 0

\* The condition under which a Medium press is reported as an error
ErrorCond == ~Blink /\ PressCounter = 0

\* if (!Blink && PressCounter > 0) { Serial.print("CONFIRMED: Duration "); ...
LoopStartIf ==
    /\ pc = "start_if"
    /\ ~Timer1IntPending
    /\ IF StartCond
       THEN /\ serialLine' = <<"CONFIRMED", lastDuration, PressCounter>>
            /\ pc' = "start_blink"
       ELSE /\ serialLine' = NoLine
            /\ pc' = "start_elif"
    /\ hwIdle
    /\ UNCHANGED <<led, timerRegs, isrVars, Blink, feedbackLedOn, lastFlashStart,
                   mainVars, extVars, obsVars>>

\* Blink = true;
LoopStartBlink ==
    /\ pc = "start_blink"
    /\ ~Timer1IntPending
    /\ Blink' = TRUE
    /\ pc' = "start_timer"
    /\ serialLine' = NoLine
    /\ stops' = 0
    /\ stopped' = FALSE
    /\ hwIdle
    /\ UNCHANGED <<led, timerRegs, isrVars, feedbackLedOn, lastFlashStart,
                   mainVars, extVars, lastEdge, acceptedAt, scen, shortsSinceLong, rdHeld, stopSnap>>

\* startTimer(PressCounter);
LoopStartTimer ==
    /\ pc = "start_timer"
    /\ startTimer(PressCounter)
    /\ pc' = "stop_test"
    /\ serialLine' = NoLine
    /\ hwIdle
    /\ UNCHANGED <<led, isrVars, Blink, feedbackLedOn, lastFlashStart, mainVars, extVars, obsVars>>

\* else if (!Blink && PressCounter == 0) { Serial.print("ERROR: Long press detected ("); ...
LoopStartElif ==
    /\ pc = "start_elif"
    /\ ~Timer1IntPending
    /\ serialLine' = IF ErrorCond THEN <<"ERROR", lastDuration>> ELSE NoLine
    /\ pc' = "stop_test"
    /\ stops' = IF ErrorCond THEN 0 ELSE stops
    /\ hwIdle
    /\ UNCHANGED <<led, timerRegs, isrVars, Blink, feedbackLedOn, lastFlashStart,
                   mainVars, extVars, lastEdge, acceptedAt, scen, shortsSinceLong, rdHeld, stopSnap, stopped>>

loop ==
    \/ LoopStopTest \/ LoopStopClearStop \/ LoopStopClearStart \/ LoopStopCall
    \/ LoopShortTest \/ LoopShortClear \/ LoopShortFlash
    \/ LoopFlashTimeout
    \/ LoopStartTest \/ LoopStartClear \/ LoopStartIf
    \/ LoopStartBlink \/ LoopStartTimer \/ LoopStartElif

----------------------------------------------------------------------------
(* part_000: loop() with the load of lastDuration at line 160 as the 8-bit  *)
(* AVR performs it, one byte per instruction, interrupts enabled.           *)

\* actionShort = false; Serial.print("SHORT PRESS: Duration ");
LoopShortClearFlag ==
    /\ pc = "short_clr"
    /\ ~Timer1IntPending
    /\ actionShort' = FALSE
    /\ rdBuf' = <<>>
    /\ rdHeld' = {lastDuration}
    /\ pc' = "short_rd"
    /\ serialLine' = NoLine
    /\ hwIdle
    /\ UNCHANGED <<led, timerRegs, PressCounter, pressTime, lastISRTime, lastDuration,
                   actionStart, actionStop, Blink, feedbackLedOn, lastFlashStart,
                   mainVars, pollVars, gwVars, stopOverStart, lastEdge, acceptedAt, scen, stops, stopSnap, stopped,
                   shortsSinceLong>>

\* the argument of Serial.print(lastDuration) is loaded, one byte per step
LoopShortLoad ==
    /\ pc = "short_rd"
    /\ ~Timer1IntPending
    /\ rdBuf' = Append(rdBuf, Bytes(lastDuration)[Len(rdBuf) + 1])
    /\ pc' = IF Len(rdBuf) = 3 THEN "short_print" ELSE "short_rd"
    /\ serialLine' = NoLine
    /\ hwIdle
    /\ UNCHANGED <<led, timerRegs, isrVars, Blink, feedbackLedOn, lastFlashStart,
                   mainVars, pollVars, gwVars, stopOverStart, obsVars>>

\* Serial.print(lastDuration); Serial.print(" ms. Counter = "); Serial.println(PressCounter);
LoopShortPrint ==
    /\ pc = "short_print"
    /\ ~Timer1IntPending
    /\ serialLine' = <<"SHORT", FromBytes(rdBuf), PressCounter>>
    /\ pc' = "short_flash"
    /\ hwIdle
    /\ UNCHANGED <<led, timerRegs, isrVars, Blink, feedbackLedOn, lastFlashStart,
                   mainVars, extVars, obsVars>>

tornLoop ==
    \/ LoopStopTest \/ LoopStopClearStop \/ LoopStopClearStart \/ LoopStopCall
    \/ LoopShortTest \/ LoopShortClearFlag \/ LoopShortLoad \/ LoopShortPrint
    \/ LoopShortFlash
    \/ LoopFlashTimeout
    \/ LoopStartTest \/ LoopStartClear \/ LoopStartIf
    \/ LoopStartBlink \/ LoopStartTimer \/ LoopStartElif

----------------------------------------------------------------------------
(* part_000: loop() with the three statements of lines 164-166 as separate  *)
(* steps, so that the handlers can run between them.                        *)

\* digitalWrite(ledPin, HIGH);
LoopFlashWrite ==
    /\ pc = "short_flash"
    /\ ~Timer1IntPending
    /\ led' = HIGH
    /\ pc' = "short_flag"
    /\ serialLine' = NoLine
    /\ hwIdle
    /\ UNCHANGED <<timerRegs, isrVars, Blink, feedbackLedOn, lastFlashStart,
                   mainVars, extVars, obsVars>>

\* feedbackLedOn = true;
LoopFlashFlag ==
    /\ pc = "short_flag"
    /\ ~Timer1IntPending
    /\ feedbackLedOn' = TRUE
    /\ pc' = "short_stamp"
    /\ serialLine' = NoLine
    /\ hwIdle
    /\ UNCHANGED <<led, timerRegs, isrVars, Blink, lastFlashStart,
                   mainVars, extVars, obsVars>>

\* lastFlashStart = millis();
LoopFlashStamp ==
    /\ pc = "short_stamp"
    /\ ~Timer1IntPending
    /\ lastFlashStart' = now
    /\ pc' = "flash_test"
    /\ serialLine' = NoLine
    /\ stops' = 0
    /\ hwIdle
    /\ UNCHANGED <<led, timerRegs, isrVars, Blink, feedbackLedOn, mainVars, extVars,
                   lastEdge, acceptedAt, scen, shortsSinceLong, rdHeld, stopSnap, stopped>>

fineLoop ==
    \/ LoopStopTest \/ LoopStopClearStop \/ LoopStopClearStart \/ LoopStopCall
    \/ LoopShortTest \/ LoopShortClear
    \/ LoopFlashWrite \/ LoopFlashFlag \/ LoopFlashStamp
    \/ LoopFlashTimeout
    \/ LoopStartTest \/ LoopStartClear \/ LoopStartIf
    \/ LoopStartBlink \/ LoopStartTimer \/ LoopStartElif

----------------------------------------------------------------------------
(* The humidity gateway over UART: Nano_Humidity_Controller.ino            *)
(* (src/unnamed/part_002) and WROVER_Web_Hub.ino (src/unnamed/part_001     *)
(* from line 738).  Humidities are counted in hundredths of a percent; a   *)
(* String is the sequence of its characters.                               *)

\* ---- Arduino String and Print ----
DigitChars == <<"0", "1", "2", "3", "4", "5", "6", "7", "8", "9">>

IsDigit(ch) == \E d \in 1..10 : DigitChars[d] = ch

DigitVal(ch) == (CHOOSE d \in 1..10 : DigitChars[d] = ch) - 1

\* isspace()
IsSpace(ch) == ch \in {" ", "\t", "\n", "\r"}

\* Print::print(unsigned long)
RECURSIVE PrintNumber(_)
PrintNumber(n) ==
    IF n < 10 THEN <<DigitChars[n + 1]>>
    ELSE Append(PrintNumber(n \div 10), DigitChars[(n % 10) + 1])

\* Print::print(double, digits) for digits 0 and 1: sign, the number rounded
\* half up at the last digit printed, integer part, point, fraction
PrintFloat(number, digits) ==
    LET a       == IF number < 0 THEN -number ELSE number
        rounded == IF digits = 0 THEN a + 50 ELSE a + 5
    IN  (IF number < 0 THEN <<"-">> ELSE <<>>)
        \o PrintNumber(rounded \div 100)
        \o (IF digits = 0 THEN <<>> ELSE <<".", DigitChars[((rounded % 100) \div 10) + 1]>>)

\* String::trim()
RECURSIVE TrimLeft(_)
TrimLeft(s) == IF s # <<>> /\ IsSpace(Head(s)) THEN TrimLeft(Tail(s)) ELSE s

RECURSIVE TrimRight(_)
TrimRight(s) ==
    IF s # <<>> /\ IsSpace(s[Len(s)]) THEN TrimRight(SubSeq(s, 1, Len(s) - 1)) ELSE s

Trim(s) == TrimRight(TrimLeft(s))

\* String::startsWith(prefix)
StartsWith(s, prefix) == Len(s) >= Len(prefix) /\ SubSeq(s, 1, Len(prefix)) = prefix

\* The operators below apply a function to their arguments so that each
\* argument is evaluated once.
Text == Seq(STRING)

\* String::indexOf(str, from): index (from 0) of the first occurrence at or
\* after from, -1 if there is none
IndexOf(s, str, from) ==
    LET First[at \in SUBSET Int] ==
            IF at = {} THEN -1 ELSE CHOOSE i \in at : \A j \in at : i <= j
        Find[t \in Text, u \in Text, n \in Int] ==
            First[{i \in n..(Len(t) - Len(u)) : SubSeq(t, i + 1, i + Len(u)) = u}]
    IN  Find[s, str, from]

\* String::substring(left, right): the arguments are unsigned, so -1 is past
\* every length; they are swapped if left > right and right is cut to the length
Substring(s, left, right) ==
    LET Cut[t \in Text, l \in Int, r \in Int] ==
            LET lo == IF l > r THEN r ELSE l
                hi == IF l > r THEN l ELSE r
            IN  IF lo >= Len(t) THEN <<>>
                ELSE SubSeq(t, lo + 1, IF hi > Len(t) THEN Len(t) ELSE hi)
        Unsigned[t \in Text, l \in Int, r \in Int] ==
            Cut[t, l, IF r < 0 THEN Len(t) + 1 ELSE r]
    IN  Unsigned[s, left, right]

RECURSIVE DigitsEnd(_, _)
DigitsEnd(s, i) == IF i <= Len(s) /\ IsDigit(s[i]) THEN DigitsEnd(s, i + 1) ELSE i

RECURSIVE Decimal(_, _, _)
Decimal(s, i, j) == IF i >= j THEN 0 ELSE Decimal(s, i, j - 1) * 10 + DigitVal(s[j - 1])

\* A conversion that stops at the point
ToFloatWhole(s) ==
    LET Number[t \in Text] == Decimal(t, 1, DigitsEnd(t, 1)) * 100
    IN  Number[TrimLeft(s)]

\* String::toFloat(), i.e. atof(): white space, sign, digits, point, digits,
\* up to the first character that fits no more; 0 when there is no number.
\* The value is in hundredths: fraction digits after the second are dropped.
ToFloat(s) ==
    LET Fraction[t \in Text, i2 \in Int] ==
            LET f1 == IF i2 + 1 <= Len(t) /\ IsDigit(t[i2 + 1])
                      THEN DigitVal(t[i2 + 1]) ELSE 0
                f2 == IF i2 + 2 <= Len(t) /\ IsDigit(t[i2 + 1]) /\ IsDigit(t[i2 + 2])
                      THEN DigitVal(t[i2 + 2]) ELSE 0
            IN  IF i2 <= Len(t) /\ t[i2] = "." THEN f1 * 10 + f2 ELSE 0
        Magnitude[t \in Text, i1 \in Int, i2 \in Int] ==
            Decimal(t, i1, i2) * 100 + Fraction[t, i2]
        Number[t \in Text] ==
            LET neg == t # <<>> /\ Head(t) = "-"
                i1  == IF t # <<>> /\ Head(t) \in {"-", "+"} THEN 2 ELSE 1
                mag == Magnitude[t, i1, DigitsEnd(t, i1)]
            IN  IF neg THEN -mag ELSE mag
    IN  Number[TrimLeft(s)]

\* Print::println(s) as the receiver's readStringUntil('\n') cuts it: the
\* text is followed by "\r\n", and every "\n" ends a line
Println(s) ==
    LET Lines[bytes \in Text] ==
            LET ends    == {i \in 1..Len(bytes) : bytes[i] = "\n"}
                End(k)  == CHOOSE i \in ends : Cardinality({j \in ends : j <= i}) = k
                From(k) == IF k = 1 THEN 1 ELSE End(k - 1) + 1
            IN  [k \in 1..Cardinality(ends) |-> SubSeq(bytes, From(k), End(k) - 1)]
    IN  Lines[s \o <<"\r", "\n">>]

\* ---- protocol texts ----
TagDHT11 == <<"[", "D", "H", "T", "1", "1", "]">>
TagSpace == <<"[", "D", "H", "T", "1", "1", "]", " ">>
TxtCurrent == <<"C", "u", "r", "r", "e", "n", "t", " ", "=", " ">>
TxtMin == <<"M", "i", "n", " ", "=", " ">>
TxtMax == <<"M", "a", "x", " ", "=", " ">>
TxtCommaMin == <<",", " ", "M", "i", "n", " ", "=", " ">>
TxtCommaMax == <<",", " ", "M", "a", "x", " ", "=", " ">>
TxtComma == <<",">>
CmdReset == <<"R", ":", "1">>
CmdMsg == <<"M", ":">>
LogReset == <<"[", "L", "O", "G", "]", " ", "R", "e", "s", "e", "t", " ", "c", "o", "m", "m", "a", "n", "d", " ", "r", "e", "c", "e", "i", "v", "e", "d", ".", " ", "C", "l", "e", "a", "r", "i", "n", "g", " ", "h", "i", "s", "t", "o", "r", "y", ".", ".", ".">>
LogMsg == <<"[", "L", "O", "G", "]", " ", "W", "e", "b", " ", "M", "e", "s", "s", "a", "g", "e", " ", "r", "e", "c", "e", "i", "v", "e", "d", ":", " ">>

\* what dht.readHumidity() returns in the runs checked when the read
\* succeeds: 40.0 % and 50.5 %
Readings == {4000, 5050}

\* the val arguments of /api/msg in the runs checked: a word, and two texts
\* with a line feed in them
Messages == {<<"h", "i">>, <<"\n", "o", "k">>, <<"\n", " ", "R", ":", "1">>}

\* what dht.readHumidity() returns when the read fails
NaN == -1

\* resetHum when the Nano's last loop iteration processed no R:1
NoReset == -1

\* lines either serial direction holds at most, sent and not yet read
MaxLines == 2

\* Nano, lines 79-86: the telemetry line
TelemetryLine(cur, min, max) ==
    TagSpace \o TxtCurrent \o PrintFloat(cur, 1)
             \o TxtCommaMin \o PrintFloat(min, 1)
             \o TxtCommaMax \o PrintFloat(max, 1) \o TxtComma

\* ---- Nano_Humidity_Controller.ino, loop() ----

\* the sensor interval of 2000 ms has passed since lastSensorReadTime
ElapseInterval ==
    /\ ~nano.due
    /\ nano' = [nano EXCEPT !.due = TRUE]
    /\ UNCHANGED <<hub, toNano, toHub, resetHum, sinceReset, i2cVars, buttonVars>>

\* lines 79-86 alone: the values held are printed
NanoTransmit ==
    /\ Len(toHub) < MaxLines
    /\ toHub' = toHub \o Println(TelemetryLine(nano.currentHum, nano.minHum, nano.maxHum))
    /\ UNCHANGED <<nano, hub, toNano, resetHum, sinceReset, i2cVars, buttonVars>>

\* lines 54-89 with a valid reading h
NanoReadValid ==
    /\ nano.task = "sensor" /\ nano.due
    /\ Len(toHub) < MaxLines
    /\ \E h \in Readings :
          LET lo == IF h < nano.minHum THEN h ELSE nano.minHum
              hi == IF h > nano.maxHum THEN h ELSE nano.maxHum
          IN  /\ nano' = [nano EXCEPT !.h = h,
                                      !.currentHum = h, !.minHum = lo, !.maxHum = hi,
                                      !.lcd = <<PrintFloat(h, 1), PrintFloat(lo, 0),
                                                PrintFloat(hi, 0)>>,
                                      !.due = FALSE, !.task = "command"]
              /\ toHub' = toHub \o Println(TelemetryLine(h, lo, hi))
              /\ sinceReset' = sinceReset \cup {h}
    /\ resetHum' = NoReset
    /\ UNCHANGED <<hub, toNano, i2cVars, buttonVars>>

\* A failed read that is stored as a reading of 0.0
NanoReadNanStored ==
    /\ nano.task = "sensor" /\ nano.due
    /\ nano' = [nano EXCEPT !.h = NaN, !.currentHum = 0, !.due = FALSE, !.task = "command"]
    /\ resetHum' = NoReset
    /\ UNCHANGED <<hub, toNano, toHub, sinceReset, i2cVars, buttonVars>>

\* lines 54-59, 88: the reading is NaN
NanoReadNan ==
    /\ nano.task = "sensor" /\ nano.due
    /\ nano' = [nano EXCEPT !.h = NaN, !.due = FALSE, !.task = "command"]
    /\ resetHum' = NoReset
    /\ UNCHANGED <<hub, toNano, toHub, sinceReset, i2cVars, buttonVars>>

\* line 54: the interval has not passed
NanoNotDue ==
    /\ nano.task = "sensor" /\ ~nano.due
    /\ nano' = [nano EXCEPT !.task = "command"]
    /\ UNCHANGED <<hub, toNano, toHub, resetHum, sinceReset, i2cVars, buttonVars>>

\* String cmd = Serial.readStringUntil('\n'); cmd.trim();
Cmd == Trim(Head(toNano))

\* A reset to the values of boot
ResetHistoryToBoot == [nano EXCEPT !.minHum = 10000, !.maxHum = 0]

\* minHum = currentHum; maxHum = currentHum;
ResetHistory == [nano EXCEPT !.minHum = nano.currentHum, !.maxHum = nano.currentHum]

\* lines 93-113: the command R:1; the delay of 2000 ms makes the next reading due
NanoCmdReset ==
    /\ nano.task = "command" /\ toNano # <<>>
    /\ Cmd = CmdReset
    /\ Len(toHub) < MaxLines
    /\ toHub' = toHub \o Println(LogReset)
    /\ nano' = [ResetHistory EXCEPT !.lcd = <<>>, !.due = TRUE, !.task = "sensor"]
    /\ resetHum' = nano.currentHum
    /\ sinceReset' = IF sinceReset = {} THEN {} ELSE {nano.currentHum}
    /\ toNano' = Tail(toNano)
    /\ UNCHANGED <<hub, i2cVars, buttonVars>>

\* lines 115-131: a command M:<text>; the delay of 4000 ms makes the next reading due
NanoCmdMsg ==
    /\ nano.task = "command" /\ toNano # <<>>
    /\ Cmd # CmdReset /\ StartsWith(Cmd, CmdMsg)
    /\ Len(toHub) < MaxLines
    /\ toHub' = toHub \o Println(LogMsg \o Substring(Cmd, 2, -1))
    /\ nano' = [nano EXCEPT !.lcd = <<>>, !.due = TRUE, !.task = "sensor"]
    /\ toNano' = Tail(toNano)
    /\ UNCHANGED <<hub, resetHum, sinceReset, i2cVars, buttonVars>>

\* lines 93-99, 115: any other line is read and dropped
NanoCmdOther ==
    /\ nano.task = "command" /\ toNano # <<>>
    /\ Cmd # CmdReset /\ ~StartsWith(Cmd, CmdMsg)
    /\ nano' = [nano EXCEPT !.task = "sensor"]
    /\ toNano' = Tail(toNano)
    /\ UNCHANGED <<hub, toHub, resetHum, sinceReset, i2cVars, buttonVars>>

\* line 93: nothing has arrived
NanoNoCmd ==
    /\ nano.task = "command" /\ toNano = <<>>
    /\ nano' = [nano EXCEPT !.task = "sensor"]
    /\ UNCHANGED <<hub, toNano, toHub, resetHum, sinceReset, i2cVars, buttonVars>>

nanoLoop ==
    \/ NanoReadValid \/ NanoReadNan \/ NanoNotDue
    \/ NanoCmdReset \/ NanoCmdMsg \/ NanoCmdOther \/ NanoNoCmd

\* ---- WROVER_Web_Hub.ino ----

\* handleReset: Serial2.println("R:1");
hubHandleReset ==
    /\ Len(toNano) < MaxLines
    /\ toNano' = toNano \o Println(CmdReset)
    /\ UNCHANGED <<nano, hub, toHub, resetHum, sinceReset, i2cVars, buttonVars>>

\* handleMsg: Serial2.println("M:" + message);
hubHandleMsg ==
    /\ \E message \in Messages :
          /\ Len(toNano) + Len(Println(CmdMsg \o message)) <= MaxLines
          /\ toNano' = toNano \o Println(CmdMsg \o message)
    /\ UNCHANGED <<nano, hub, toHub, resetHum, sinceReset, i2cVars, buttonVars>>

\* A loop that reads the line and stores nothing
HubParseNothing(incoming) == hub

\* A loop that parses the fields of any line, tagged or not
HubParseUntagged(incoming) ==
    LET Field(at, skip) ==
            ToFloat(Substring(incoming, at + skip, IndexOf(incoming, TxtComma, at)))
        Fields[curIdx \in Int, minIdx \in Int, maxIdx \in Int] ==
            IF curIdx # -1 /\ minIdx # -1 /\ maxIdx # -1
            THEN [currentHum |-> Field(curIdx, 10),
                  minHum     |-> Field(minIdx, 6),
                  maxHum     |-> Field(maxIdx, 6)]
            ELSE hub
    IN  Fields[IndexOf(incoming, TxtCurrent, 0), IndexOf(incoming, TxtMin, 0),
               IndexOf(incoming, TxtMax, 0)]

\* loop(), lines 936-950, of the line read and trimmed
HubParse(incoming) ==
    LET Field(at, skip) ==
            ToFloat(Substring(incoming, at + skip, IndexOf(incoming, TxtComma, at)))
        Fields[curIdx \in Int, minIdx \in Int, maxIdx \in Int] ==
            IF curIdx # -1 /\ minIdx # -1 /\ maxIdx # -1
            THEN [currentHum |-> Field(curIdx, 10),
                  minHum     |-> Field(minIdx, 6),
                  maxHum     |-> Field(maxIdx, 6)]
            ELSE hub
    IN  IF StartsWith(incoming, TagDHT11)
        THEN Fields[IndexOf(incoming, TxtCurrent, 0), IndexOf(incoming, TxtMin, 0),
                    IndexOf(incoming, TxtMax, 0)]
        ELSE hub

\* loop() with a line available on Serial2
hubLoop ==
    /\ toHub # <<>>
    /\ \E incoming \in {Trim(Head(toHub))} : hub' = HubParse(incoming)
    /\ toHub' = Tail(toHub)
    /\ UNCHANGED <<nano, toNano, resetHum, sinceReset, i2cVars, buttonVars>>

\* The state after setup() of the two sketches
InitUart ==
    /\ nano = [currentHum |-> 0, minHum |-> 10000, maxHum |-> 0,
               lcd |-> <<>>, due |-> FALSE, task |-> "sensor", h |-> 0]
    /\ hub = [currentHum |-> 0, minHum |-> 10000, maxHum |-> 0]
    /\ toNano = <<>> /\ toHub = <<>>
    /\ resetHum = NoReset /\ sinceReset = {}

----------------------------------------------------------------------------
(* The humidity gateway over I2C: ESP32.ino, the master (src/unnamed/      *)
(* part_001 lines 86-736) and Arduino_Nano.ino, the slave                  *)
(* (src/Arduino_Nano/Arduino_Nano.ino).                                    *)

\* the byte 0 that ends a C string
NUL == "NUL"

\* while (... && attempts < 20)
WIFI_ATTEMPTS == 20

\* BUFFER_LENGTH of the Nano's Wire library: bytes one write can deliver
WIRE_BUFFER == 32

\* char message[21];
MESSAGE_SIZE == 21

\* an erased EEPROM cell, which reads as NaN
Blank == -1

RECURSIVE Chars(_, _)
Chars(ch, n) == IF n = 0 THEN <<>> ELSE Append(Chars(ch, n - 1), ch)

\* the msg arguments of /message in the runs checked: none, a word, a text
\* with a byte 0 in it (%00), 20 characters, 25 characters
WebMessages == {<<>>, <<"a", "b", "c">>, <<"a", NUL, "b">>, Chars("x", 20), Chars("y", 25)}

\* the payloads and length bytes of the 'M' frames that arrive at the Nano
\* from any master in the runs checked
FramePayloads == {<<>>, <<"a", NUL, "b">>, Chars("z", 22), Chars("w", WIRE_BUFFER - 2)}

FrameLengths == {0, 2, 22, 255}

\* The frames that arrive otherwise than from handleSendMessage: nothing
\* but the address, a lone command byte, an unknown command, 'M' frames
Frames ==
    {<<>>, <<"M">>, <<"R">>, <<"X", 1>>}
        \cup {<<"M", n>> \o p : n \in FrameLengths, p \in FramePayloads}

\* a C string: the characters up to the first byte 0
RECURSIVE CString(_)
CString(buf) ==
    IF buf = <<>> \/ Head(buf) = NUL THEN <<>> ELSE <<Head(buf)>> \o CString(Tail(buf))

MinOf(a, b) == IF a < b THEN a ELSE b

\* ---- ESP32.ino ----

\* setupWiFi, lines 252-258: WiFi.begin, attempts = 0
SetupWiFiBegin ==
    /\ esp32.pc \in {"setup_wifi", "wifi_begin"}
    /\ esp32' = [esp32 EXCEPT !.pc = "wifi_wait", !.attempts = 0]
    /\ UNCHANGED <<wifiStatus, wire, nanoI2c, uartVars, buttonVars>>

\* setupWiFi, lines 259-263: one more wait of 500 ms
SetupWiFiWait ==
    /\ esp32.pc = "wifi_wait"
    /\ ~wifiStatus /\ esp32.attempts < WIFI_ATTEMPTS
    /\ esp32' = [esp32 EXCEPT !.attempts = @ + 1]
    /\ UNCHANGED <<wifiStatus, wire, nanoI2c, uartVars, buttonVars>>

\* setupWiFi, lines 265-273, and the return to the caller: setup() goes on
\* to loop(), loop() to its next iteration
SetupWiFiDone ==
    /\ esp32.pc = "wifi_wait"
    /\ wifiStatus \/ esp32.attempts >= WIFI_ATTEMPTS
    /\ esp32' = [esp32 EXCEPT !.wifiConnected = wifiStatus, !.attempts = 0, !.pc = "client"]
    /\ UNCHANGED <<wifiStatus, wire, nanoI2c, uartVars, buttonVars>>

setupWiFi == SetupWiFiBegin \/ SetupWiFiWait \/ SetupWiFiDone

\* the station associates with the access point
WifiUp ==
    /\ ~wifiStatus
    /\ wifiStatus' = TRUE
    /\ UNCHANGED <<esp32, wire, nanoI2c, uartVars, buttonVars>>

\* the link drops
WifiDown ==
    /\ wifiStatus
    /\ wifiStatus' = FALSE
    /\ UNCHANGED <<esp32, wire, nanoI2c, uartVars, buttonVars>>

\* 2 s have passed since lastRequest
ElapseRequest ==
    /\ ~esp32.requestDue
    /\ esp32' = [esp32 EXCEPT !.requestDue = TRUE]
    /\ UNCHANGED <<wifiStatus, wire, nanoI2c, uartVars, buttonVars>>

\* saveSensorDataToEEPROM
SavedEEPROM(data) == [min |-> data.minHumidity, max |-> data.maxHumidity]

\* server.handleClient() with no request, with GET /status, or with
\* /message without the argument msg (lines 714-717)
ClientIdle ==
    /\ esp32.pc = "client"
    /\ esp32' = [esp32 EXCEPT !.pc = "request"]
    /\ UNCHANGED <<wifiStatus, wire, nanoI2c, uartVars, buttonVars>>

\* handleReset, lines 693-703
HandleResetI2c ==
    /\ esp32.pc = "client"
    /\ LET data == [esp32.sensorData EXCEPT !.minHumidity = 10000, !.maxHumidity = 0]
       IN  esp32' = [esp32 EXCEPT !.sensorData = data, !.eeprom = SavedEEPROM(data),
                                  !.pc = "request"]
    /\ UNCHANGED <<wifiStatus, wire, nanoI2c, uartVars, buttonVars>>

\* message.substring(0, 20), 'M', message.length(), the characters
MessageFrame(msg) ==
    LET message == Substring(msg, 0, 20)
    IN  <<"M", Len(message)>> \o message

\* handleSendMessage, lines 719-735; the frame is in the Nano's receive
\* buffer when endTransmission returns
handleSendMessage ==
    /\ esp32.pc = "client"
    /\ ~wire.pending
    /\ \E msg \in WebMessages :
          wire' = [pending |-> TRUE, bytes |-> MessageFrame(msg), web |-> TRUE]
    /\ esp32' = [esp32 EXCEPT !.pc = "request"]
    /\ UNCHANGED <<wifiStatus, nanoI2c, uartVars, buttonVars>>

\* updateSensorMinMax, lines 329-345
UpdateSensorMinMax(data, eeprom) ==
    LET lo      == IF data.humidity < data.minHumidity THEN data.humidity ELSE data.minHumidity
        hi      == IF data.humidity > data.maxHumidity THEN data.humidity ELSE data.maxHumidity
        updated == [data EXCEPT !.minHumidity = lo, !.maxHumidity = hi]
    IN  [sensorData |-> updated,
         eeprom     |-> IF updated # data THEN SavedEEPROM(updated) ELSE eeprom]

\* loop, lines 226-230, the interval has passed: requestDataFromNano gets
\* the 4 bytes that sendHumidityToMaster (Nano, lines 231-239) writes
RequestOk ==
    /\ esp32.pc = "request" /\ esp32.requestDue
    /\ LET got == UpdateSensorMinMax([esp32.sensorData EXCEPT
                                         !.humidity = nanoI2c.currentHumidity],
                                     esp32.eeprom)
       IN  esp32' = [esp32 EXCEPT !.sensorData = got.sensorData, !.eeprom = got.eeprom,
                                  !.requestDue = FALSE, !.pc = "wifi"]
    /\ UNCHANGED <<wifiStatus, wire, nanoI2c, uartVars, buttonVars>>

\* requestDataFromNano, lines 316-318: the Nano did not answer
RequestFailed ==
    /\ esp32.pc = "request" /\ esp32.requestDue
    /\ esp32' = [esp32 EXCEPT !.requestDue = FALSE, !.pc = "wifi"]
    /\ UNCHANGED <<wifiStatus, wire, nanoI2c, uartVars, buttonVars>>

\* loop, line 227: the interval has not passed
RequestNotDue ==
    /\ esp32.pc = "request" /\ ~esp32.requestDue
    /\ esp32' = [esp32 EXCEPT !.pc = "wifi"]
    /\ UNCHANGED <<wifiStatus, wire, nanoI2c, uartVars, buttonVars>>

\* if (!wifiConnected && WiFi.status() != WL_CONNECTED)
ReconnectCond == ~esp32.wifiConnected /\ ~wifiStatus

\* loop, lines 233-238: the WiFi check, then delay(10) and the next iteration
WifiCheck ==
    /\ esp32.pc = "wifi"
    /\ esp32' = [esp32 EXCEPT !.pc = IF ReconnectCond THEN "wifi_begin" ELSE "client"]
    /\ UNCHANGED <<wifiStatus, wire, nanoI2c, uartVars, buttonVars>>

esp32Loop ==
    \/ ClientIdle \/ HandleResetI2c \/ handleSendMessage
    \/ RequestOk \/ RequestFailed \/ RequestNotDue
    \/ WifiCheck

\* ---- Arduino_Nano.ino ----

\* a frame from elsewhere on the bus arrives; the Wire library delivers at
\* most WIRE_BUFFER bytes of it
FrameArrives ==
    /\ ~wire.pending
    /\ \E f \in Frames :
          wire' = [pending |-> TRUE, bytes |-> SubSeq(f, 1, MinOf(Len(f), WIRE_BUFFER)),
                   web |-> FALSE]
    /\ UNCHANGED <<esp32, wifiStatus, nanoI2c, uartVars, buttonVars>>

\* A length taken as it arrives
MsgLengthAsSent(lengthByte) == lengthByte

\* msgLength = min(msgLength, 20);
MsgLength(lengthByte) == MinOf(lengthByte, 20)

\* lines 264-269: the bytes written to message[], the terminator last
MessageWritten(frame) ==
    LET msgLength == MsgLength(frame[2])
        i         == MinOf(Len(frame) - 2, msgLength)
    IN  Append(SubSeq(frame, 3, 2 + i), NUL)

\* displayMessage, lines 189-205, as the 16 columns of the display show it:
\* line 1 is printed whole from column 0 and shows its first 16 characters,
\* the characters from the 17th on are printed on line 2
Displayed(message) ==
    LET text == CString(message)
    IN  <<SubSeq(text, 1, MinOf(Len(text), 16)), SubSeq(text, 17, Len(text))>>

\* handleI2CReceive, lines 252-279
handleI2CReceive ==
    /\ wire.pending
    /\ wire' = [wire EXCEPT !.pending = FALSE]
    /\ LET frame == wire.bytes
       IN  IF Len(frame) >= 2 /\ frame[1] = "M"
           THEN nanoI2c' = [nanoI2c EXCEPT !.message = MessageWritten(frame),
                                           !.lcd = Displayed(MessageWritten(frame))]
           ELSE UNCHANGED nanoI2c
    /\ UNCHANGED <<esp32, wifiStatus, uartVars, buttonVars>>

\* The four bytes of a float in memory, low byte first (IEEE 754 single
\* precision), for a humidity that is a multiple of 0.5 %
FloatBytes(hundredths) ==
    LET halves == hundredths \div 50
        bits   == IF halves = 0 THEN 0
                  ELSE LET e == CHOOSE k \in 0..23 : 2^k <= halves /\ halves < 2^(k + 1)
                       IN  (126 + e) * 2^23 + (halves - 2^e) * 2^(23 - e)
    IN  <<bits % 256, (bits \div 256) % 256, (bits \div 65536) % 256, bits \div 16777216>>

\* more than 2000 ms have passed since lastSensorRead
ElapseRead ==
    /\ ~nanoI2c.due
    /\ nanoI2c' = [nanoI2c EXCEPT !.due = TRUE]
    /\ UNCHANGED <<esp32, wifiStatus, wire, uartVars, buttonVars>>

\* loop and readHumiditySensor, lines 110-113 and 139-161, both values valid
ReadHumidityValid ==
    /\ nanoI2c.due /\ nanoI2c.at = "loop"
    /\ \E humidity \in Readings :
          nanoI2c' = [nanoI2c EXCEPT !.humidity = humidity,
                                     !.currentHumidity = humidity,
                                     !.mem = FloatBytes(humidity),
                                     !.lcd = <<<<"Temp">>, PrintFloat(humidity, 1)>>,
                                     !.due = FALSE]
    /\ UNCHANGED <<esp32, wifiStatus, wire, uartVars, buttonVars>>

\* lines 140-146: the humidity is NaN, or the temperature is
ReadHumidityNan ==
    /\ nanoI2c.due /\ nanoI2c.at = "loop"
    /\ \E humidity \in Readings \cup {NaN} :
          nanoI2c' = [nanoI2c EXCEPT !.humidity = humidity, !.due = FALSE]
    /\ UNCHANGED <<esp32, wifiStatus, wire, uartVars, buttonVars>>

nanoI2cLoop == ReadHumidityValid \/ ReadHumidityNan

\* readHumiditySensor with the store of line 148 byte by byte: currentHumidity
\* is a float of four bytes that an 8-bit processor stores one at a time, in
\* the order the compiler chose, with the interrupts enabled.

\* lines 140-146, both values valid
ReadHumidityBegin ==
    /\ nanoI2c.due /\ nanoI2c.at = "loop"
    /\ \E humidity \in Readings :
          nanoI2c' = [nanoI2c EXCEPT !.humidity = humidity, !.todo = 1..4, !.at = "store"]
    /\ UNCHANGED <<esp32, wifiStatus, wire, uartVars, buttonVars>>

\* currentHumidity = humidity; one byte
ReadHumidityStore ==
    /\ nanoI2c.at = "store"
    /\ \E i \in nanoI2c.todo :
          nanoI2c' = [nanoI2c EXCEPT !.mem[i] = FloatBytes(nanoI2c.humidity)[i],
                                     !.todo = nanoI2c.todo \ {i},
                                     !.currentHumidity =
                                         IF nanoI2c.todo = {i} THEN nanoI2c.humidity ELSE @,
                                     !.at = IF nanoI2c.todo = {i} THEN "show" ELSE "store"]
    /\ UNCHANGED <<esp32, wifiStatus, wire, uartVars, buttonVars>>

\* lines 151-160, and lastSensorRead = millis(); of loop
ReadHumidityShow ==
    /\ nanoI2c.at = "show"
    /\ nanoI2c' = [nanoI2c EXCEPT !.lcd = <<<<"Temp">>, PrintFloat(nanoI2c.humidity, 1)>>,
                                  !.due = FALSE, !.at = "loop"]
    /\ UNCHANGED <<esp32, wifiStatus, wire, uartVars, buttonVars>>

readHumiditySensor == ReadHumidityBegin \/ ReadHumidityStore \/ ReadHumidityShow

\* sendHumidityToMaster, lines 231-239, run by the interrupt of a read request
\* of the master: the bytes of currentHumidity as they are in memory
sendHumidityToMaster ==
    /\ nanoI2c' = [nanoI2c EXCEPT !.sent = nanoI2c.mem]
    /\ UNCHANGED <<esp32, wifiStatus, wire, uartVars, buttonVars>>

\* ESP32 at line 203 of setup(), EEPROM erased and loaded; Nano after setup()
InitI2c ==
    /\ esp32 = [pc |-> "setup_wifi", attempts |-> 0, wifiConnected |-> FALSE,
                sensorData |-> [humidity |-> 0, minHumidity |-> 10000, maxHumidity |-> 0],
                eeprom |-> [min |-> Blank, max |-> Blank], requestDue |-> FALSE]
    /\ wifiStatus = FALSE
    /\ wire = [pending |-> FALSE, bytes |-> <<>>, web |-> FALSE]
    /\ nanoI2c = [currentHumidity |-> 0, message |-> <<>>,
                  lcd |-> <<<<"S", "y", "s", "t", "e", "m", " ", "R", "e", "a", "d", "y", "!">>,
                            <<>>>>,
                  due |-> FALSE, humidity |-> 0,
                  mem |-> FloatBytes(0), todo |-> {}, at |-> "loop", sent |-> <<>>]

InitGw == InitUart /\ InitI2c

----------------------------------------------------------------------------
(* The state after setup() *)

NoSnap == [PressCounter |-> 0, Blink |-> FALSE, feedbackLedOn |-> FALSE, led |-> LOW,
           TCCR1A |-> {}, TCCR1B |-> {}, TCNT1 |-> 0, TIMSK1 |-> {}]

InitObs ==
    /\ lastEdge = "none"
    /\ acceptedAt = U32(0)
    /\ scen = 0
    /\ stops = 0
    /\ stopSnap = NoSnap
    /\ stopped = FALSE
    /\ shortsSinceLong = 0
    /\ rdHeld = {}

\* The variables of the Timer2 variant and of the byte-wise load, at rest
InitExt ==
    /\ rdBuf = <<>>
    /\ systemMs = U32(0) /\ sregI = TRUE /\ OCF2A = FALSE
    /\ tCopy = <<>> /\ loopNow = U32(0)
    /\ pressed = FALSE /\ blinkInterval = U32(0) /\ ledOn = FALSE
    /\ ppc = "get_ms"
    /\ msHeld = {}
    /\ stopOverStart = FALSE

InitBoard ==
    /\ now = U32(0) /\ pin = LOW /\ led = LOW
    /\ TCCR1A = {} /\ TCCR1B = {} /\ TCNT1 = 0 /\ OCR1A = 0 /\ TIMSK1 = {}
    /\ OCF1A = FALSE
    /\ PressCounter = 0 /\ pressTime = U32(0) /\ lastISRTime = U32(0)
    /\ lastDuration = U32(0)
    /\ actionShort = FALSE /\ actionStart = FALSE /\ actionStop = FALSE
    /\ Blink = FALSE /\ feedbackLedOn = FALSE /\ lastFlashStart = U32(0)
    /\ pc = "stop_test"
    /\ serialLine = NoLine
    /\ pressStartTime = U32(0) /\ shortPressCount = 0
    /\ InitObs
    /\ InitExt

Init == InitBoard /\ InitGw

Next ==
    \/ Tick
    \/ Timer1Count
    \/ Timer1Match
    \/ buttonISR
    \/ Timer1ISR
    \/ loop

Spec == Init /\ [][Next]_vars

\* part_000 under the presses of the sequence scenario
NextSeq ==
    \/ TickSeq
    \/ Timer1Count
    \/ Timer1Match
    \/ buttonISR
    \/ Timer1ISR
    \/ loop

SpecSeq == Init /\ [][NextSeq]_vars

\* part_000 under a stop that arrives while blinking.  loop() runs on: the
\* AVR executes at least one instruction of the main flow between two
\* interrupts, so it takes a step whenever it is enabled again and again;
\* a pending, enabled compare interrupt is served.
NextLive ==
    \/ TickLive
    \/ Timer1Count
    \/ Timer1Match
    \/ buttonISR
    \/ Timer1ISR
    \/ loop

SpecLive == Init /\ [][NextLive]_vars /\ SF_vars(loop) /\ WF_vars(Timer1ISR)

\* part_000 under presses that follow a Long press
NextAfter ==
    \/ TickAfter
    \/ Timer1Count
    \/ Timer1Match
    \/ buttonISR
    \/ Timer1ISR
    \/ loop

SpecAfter == Init /\ [][NextAfter]_vars

\* part_000 under a Long press followed by a Medium press, and the presses
\* after them
NextOver ==
    \/ TickOver
    \/ Timer1Count
    \/ Timer1Match
    \/ buttonISR
    \/ Timer1ISR
    \/ loop

SpecOver == Init /\ [][NextOver]_vars

\* The UART gateway: the Nano's loop, time passing, the web requests
\* /api/reset and /api/msg, the ESP32's loop
NextUart ==
    \/ ElapseInterval
    \/ nanoLoop
    \/ hubHandleReset
    \/ hubHandleMsg
    \/ hubLoop

SpecUart == Init /\ [][NextUart]_vars

\* The UART gateway with every reading valid and the link reliable: both
\* loops keep running and time keeps passing
nanoLoopValid ==
    \/ NanoReadValid \/ NanoNotDue
    \/ NanoCmdReset \/ NanoCmdMsg \/ NanoCmdOther \/ NanoNoCmd

NextReset ==
    \/ ElapseInterval
    \/ nanoLoopValid
    \/ hubHandleReset
    \/ hubHandleMsg
    \/ hubLoop

SpecReset ==
    /\ Init /\ [][NextReset]_vars
    /\ WF_vars(nanoLoopValid) /\ WF_vars(ElapseInterval) /\ WF_vars(hubLoop)

\* The telemetry line alone: the Nano holds any three values of Telemetry
\* and prints them, the ESP32 reads the line
Telemetry == {0, 990, 1000, 4530, 10000}

InitTelemetry ==
    /\ InitBoard /\ InitI2c
    /\ \E cur \in Telemetry, lo \in Telemetry, hi \in Telemetry :
          nano = [currentHum |-> cur, minHum |-> lo, maxHum |-> hi,
                  lcd |-> <<>>, due |-> FALSE, task |-> "sensor", h |-> 0]
    /\ hub = [currentHum |-> 0, minHum |-> 10000, maxHum |-> 0]
    /\ toNano = <<>> /\ toHub = <<>>
    /\ resetHum = NoReset /\ sinceReset = {}

NextTelemetry ==
    \/ NanoTransmit
    \/ hubLoop

SpecTelemetry == InitTelemetry /\ [][NextTelemetry]_vars

\* Lines on the link to the ESP32, without their line end: the Nano's log
\* lines (one echoing a message that reads like telemetry), a telemetry
\* line, telemetry lines with a field missing, with the tag missing or not
\* at the start, with a blank before the tag, the tag alone, an empty line
HubLines ==
    LET tele == TelemetryLine(4530, 3000, 6000)
        v    == PrintFloat(4530, 1)
    IN  {LogReset, LogMsg \o <<"h", "i">>, LogMsg \o tele, tele,
         TagSpace \o TxtCurrent \o v \o TxtCommaMin \o v \o TxtComma,
         TagSpace \o TxtCurrent \o v \o TxtCommaMax \o v \o TxtComma,
         TagSpace \o TxtMin \o v \o TxtCommaMax \o v \o TxtComma,
         SubSeq(tele, Len(TagSpace) + 1, Len(tele)), <<"x">> \o tele, <<" ">> \o tele,
         TagDHT11, <<>>}

\* A line as println sends it, being read by the ESP32 that holds any
\* three values, and sent once more behind it
InitParse ==
    /\ InitBoard /\ InitI2c
    /\ nano = [currentHum |-> 0, minHum |-> 10000, maxHum |-> 0,
               lcd |-> <<>>, due |-> FALSE, task |-> "sensor", h |-> 0]
    /\ \E cur \in Telemetry, lo \in Telemetry, hi \in Telemetry :
          hub = [currentHum |-> cur, minHum |-> lo, maxHum |-> hi]
    /\ \E line \in HubLines : toHub = Println(line) \o Println(line)
    /\ toNano = <<>>
    /\ resetHum = NoReset /\ sinceReset = {}

NextParse == hubLoop

SpecParse == InitParse /\ [][NextParse]_vars

\* The I2C gateway: setup() from its call of setupWiFi on and loop() of the
\* ESP32, the WiFi link, time passing, the Nano
NextI2c ==
    \/ setupWiFi
    \/ WifiUp
    \/ WifiDown
    \/ ElapseRequest
    \/ esp32Loop
    \/ handleI2CReceive
    \/ ElapseRead
    \/ nanoI2cLoop

SpecI2c == Init /\ [][NextI2c]_vars

\* The sensor side of both gateways: the loop of the UART node with resets
\* as its only commands, the ESP32 reading its lines, and the loop of the
\* I2C node
nanoLoopSensor ==
    \/ NanoReadValid \/ NanoReadNan \/ NanoNotDue
    \/ NanoCmdReset \/ NanoNoCmd

NextSensors ==
    \/ ElapseInterval
    \/ nanoLoopSensor
    \/ hubHandleReset
    \/ hubLoop
    \/ ElapseRead
    \/ nanoI2cLoop

SpecSensors == Init /\ [][NextSensors]_vars

\* The I2C node alone: its loop, the store of the reading byte by byte, and
\* read requests of the master at any time
NextRequest ==
    \/ ElapseRead
    \/ readHumiditySensor
    \/ ReadHumidityNan
    \/ sendHumidityToMaster

SpecRequest == Init /\ [][NextRequest]_vars

\* The I2C gateway with frames from anywhere on the bus: the ESP32 as
\* above under a link that stays up, the Nano's receive handler
NextFrames ==
    \/ setupWiFi
    \/ WifiUp
    \/ ElapseRequest
    \/ esp32Loop
    \/ FrameArrives
    \/ handleI2CReceive

SpecFrames == Init /\ [][NextFrames]_vars

\* part_000 with the flash statements apart, under a quick press, a press
\* held 1500 ms and a press held 4000 ms
NextFine ==
    \/ TickLive
    \/ Timer1Count
    \/ Timer1Match
    \/ buttonISR
    \/ Timer1ISR
    \/ fineLoop

SpecFine == Init /\ [][NextFine]_vars

\* part_000 with the byte-wise load, under quick presses of different lengths
NextTorn ==
    \/ TickTorn
    \/ Timer1Count
    \/ Timer1Match
    \/ buttonISR
    \/ Timer1ISR
    \/ tornLoop

SpecTorn == Init /\ [][NextTorn]_vars

\* part_000 left alone since boot until millis() is about to wrap
InitWrap ==
    /\ now = WrapBase /\ pin = LOW /\ led = LOW
    /\ TCCR1A = {} /\ TCCR1B = {} /\ TCNT1 = 0 /\ OCR1A = 0 /\ TIMSK1 = {}
    /\ OCF1A = FALSE
    /\ PressCounter = 0 /\ pressTime = U32(0) /\ lastISRTime = U32(0)
    /\ lastDuration = U32(0)
    /\ actionShort = FALSE /\ actionStart = FALSE /\ actionStop = FALSE
    /\ Blink = FALSE /\ feedbackLedOn = FALSE /\ lastFlashStart = U32(0)
    /\ pc = "stop_test"
    /\ serialLine = NoLine
    /\ pressStartTime = U32(0) /\ shortPressCount = 0
    /\ InitObs
    /\ InitExt
    /\ InitGw

NextWrap ==
    \/ TickWrap
    \/ Timer1Count
    \/ Timer1Match
    \/ buttonISR
    \/ Timer1ISR
    \/ loop

SpecWrap == InitWrap /\ [][NextWrap]_vars

\* part_000 after n short presses, 50 ms each, have been counted and
\* dispatched, the last one released at PeriodStart - 200 and its flash over
InitPeriod ==
    /\ now = U32(PeriodStart) /\ pin = LOW /\ led = LOW
    /\ TCCR1A = {} /\ TCCR1B = {} /\ TCNT1 = 0 /\ OCR1A = 0 /\ TIMSK1 = {}
    /\ OCF1A = FALSE
    /\ PressCounter \in 1..MaxCount
    /\ pressTime = U32(PeriodStart - FLASH_TIME - DEBOUNCE_TIME)
    /\ lastISRTime = U32(PeriodStart - FLASH_TIME)
    /\ lastDuration = U32(DEBOUNCE_TIME)
    /\ actionShort = FALSE /\ actionStart = FALSE /\ actionStop = FALSE
    /\ Blink = FALSE /\ feedbackLedOn = FALSE
    /\ lastFlashStart = U32(PeriodStart - FLASH_TIME)
    /\ pc = "stop_test"
    /\ serialLine = NoLine
    /\ pressStartTime = U32(0) /\ shortPressCount = 0
    /\ lastEdge = "Short" /\ acceptedAt = U32(PeriodStart - FLASH_TIME)
    /\ scen = (IF PressCounter <= 3 THEN PressCounter ELSE -1)
    /\ stops = 0 /\ stopSnap = NoSnap /\ stopped = FALSE
    /\ shortsSinceLong = PressCounter /\ rdHeld = {}
    /\ InitExt
    /\ InitGw

NextPeriod ==
    \/ TickPeriod
    \/ Timer1Count
    \/ Timer1Match
    \/ buttonISR
    \/ Timer1ISR
    \/ loop

SpecPeriod == InitPeriod /\ [][NextPeriod]_vars

----------------------------------------------------------------------------
(* main.cpp: everything happens in the two handlers; loop() is empty.      *)

\* int (16 bits, two's complement) value of an int expression
Int16(x) == ((x + 32768) % Pow16) - 32768

\* C division, truncating toward zero
CDiv(a, b) == IF a >= 0 THEN a \div b ELSE -((-a) \div b)

\* The compare value startBlinking stores in OCR1A
BlinkCompareValue(count) ==
    LET intervalMs == Int16(count * 500)
    IN  Reg16(CDiv(15625 * intervalMs, 1000) - 1 + Pow16)

startBlinking(count) ==
    IF count = 0
    THEN UNCHANGED <<OCR1A, TCCR1B, stopped>>
    ELSE /\ OCR1A' = BlinkCompareValue(count)
         /\ TCCR1B' = TCCR1B \cup {"CS12", "CS10"}
         /\ stopped' = FALSE

stopSystem ==
    /\ TCCR1B' = TCCR1B \ ClockBits
    /\ led' = LOW
    /\ shortPressCount' = 0
    /\ stopped' = TRUE

\* A change of the button pin and the run of handleButtonISR it triggers
handleButtonISR ==
    /\ pin' = 1 - pin
    /\ serialLine' = NoLine
    /\ UNCHANGED <<now, TCCR1A, TCNT1, TIMSK1, OCF1A, matureVars, extVars,
                   lastEdge, acceptedAt, scen, shortsSinceLong, rdHeld, stops, stopSnap>>
    /\ IF pin' = HIGH
       THEN /\ pressStartTime' = now
            /\ UNCHANGED <<shortPressCount, led, OCR1A, TCCR1B, stopped>>
       ELSE LET duration == Sub32(now, pressStartTime)
            IN  /\ UNCHANGED pressStartTime
                /\ IF Lt32(duration, U32(1500))
                   THEN /\ shortPressCount < MaxPress
                        /\ shortPressCount' = IncU8(shortPressCount)
                        /\ UNCHANGED <<led, OCR1A, TCCR1B, stopped>>
                   ELSE IF ~Lt32(duration, U32(1500)) /\ ~Lt32(U32(4000), duration)
                   THEN /\ startBlinking(shortPressCount)
                        /\ UNCHANGED <<shortPressCount, led>>
                   ELSE /\ stopSystem
                        /\ UNCHANGED OCR1A

\* ISR(TIMER1_COMPA_vect) of main.cpp
MainTimer1ISR ==
    /\ Timer1IntPending
    /\ OCF1A' = FALSE
    /\ led' = 1 - led
    /\ serialLine' = NoLine
    /\ UNCHANGED <<now, pin, timerRegs, matureVars, mainVars, extVars, obsVars>>

\* The state after setup() of main.cpp
InitMain ==
    /\ now = U32(0) /\ pin = LOW /\ led = LOW
    /\ TCCR1A = {} /\ TCCR1B = {"WGM12"} /\ TCNT1 = 0 /\ OCR1A = 0
    /\ TIMSK1 = {"OCIE1A"}
    /\ OCF1A = FALSE
    /\ PressCounter = 0 /\ pressTime = U32(0) /\ lastISRTime = U32(0)
    /\ lastDuration = U32(0)
    /\ actionShort = FALSE /\ actionStart = FALSE /\ actionStop = FALSE
    /\ Blink = FALSE /\ feedbackLedOn = FALSE /\ lastFlashStart = U32(0)
    /\ pc = "stop_test"
    /\ serialLine = NoLine
    /\ pressStartTime = U32(0) /\ shortPressCount = 0
    /\ InitObs
    /\ InitExt
    /\ InitGw

NextMain ==
    \/ TickMain
    \/ Timer1Count
    \/ Timer1Match
    \/ handleButtonISR
    \/ MainTimer1ISR

SpecMain == InitMain /\ [][NextMain]_vars

----------------------------------------------------------------------------
(* RoniMain.cpp, Timer2 variant: a 1 ms tick counts systemMs, loop() polls  *)
(* the button.  The AVR loads and stores one byte at a time.                *)

POLL_FLASH_TIME == 500

\* The button is held since pressTime, and systemMs is one tick short of a
\* carry out of its low two, or three, bytes and of a threshold of the press
PollStarts ==
    {[ms |-> U32(Pow16 - 1), held |-> SHORT_PRESS_TIME - 1],
     [ms |-> U32(256 * Pow16 - 1), held |-> LONG_PRESS_TIME - 1]}

\* The fields the Timer2 variant does not have
pollRest ==
    <<now, TCCR1A, TCCR1B, TCNT1, OCR1A, TIMSK1, OCF1A, lastISRTime, lastDuration,
      actionShort, actionStart, actionStop, feedbackLedOn, pc, serialLine, mainVars, rdBuf,
      acceptedAt, scen, stops, stopSnap, stopped, shortsSinceLong, rdHeld, gwVars,
      stopOverStart>>

\* A pending tick is served before the next statement when interrupts are enabled
Timer2IntPending == sregI /\ OCF2A

\* Timer2 reaches OCR2A: one more millisecond, the compare flag is raised
Timer2Match ==
    /\ \E st \in PollStarts : Lt32(Sub32(systemMs, st.ms), U32(MaxTicks))
    /\ ~OCF2A
    /\ OCF2A' = TRUE
    /\ UNCHANGED <<pin, led, PressCounter, pressTime, Blink, lastFlashStart, lastEdge,
                   systemMs, sregI, tCopy, loopNow, pressed, blinkInterval, ledOn, ppc,
                   msHeld, pollRest>>

\* ISR(TIMER2_COMPA_vect) { systemMs++; }
Timer2ISR ==
    /\ Timer2IntPending
    /\ OCF2A' = FALSE
    /\ systemMs' = Add32(systemMs, U32(1))
    /\ msHeld' = IF ppc \in {"copy", "unmask", "ret"} THEN msHeld \cup {systemMs'} ELSE msHeld
    /\ UNCHANGED <<pin, led, PressCounter, pressTime, Blink, lastFlashStart, lastEdge,
                   sregI, tCopy, loopNow, pressed, blinkInterval, ledOn, ppc, pollRest>>

\* The button changes; the Timer2 variant has no pin interrupt.  The
\* environment presses again only while fewer than MaxPress presses are counted.
PollButton ==
    /\ pin = HIGH => PressCounter < MaxPress
    /\ pin' = 1 - pin
    /\ UNCHANGED <<led, PressCounter, pressTime, Blink, lastFlashStart, lastEdge,
                   systemMs, sregI, OCF2A, tCopy, loopNow, pressed, blinkInterval, ledOn,
                   ppc, msHeld, pollRest>>

\* getSystemMs entered without masking the interrupts
GetMsNoMask ==
    /\ ppc = "get_ms"
    /\ ~Timer2IntPending
    /\ msHeld' = {systemMs}
    /\ tCopy' = <<>>
    /\ ppc' = "copy"
    /\ UNCHANGED <<pin, led, PressCounter, pressTime, Blink, lastFlashStart, lastEdge,
                   systemMs, sregI, OCF2A, loopNow, pressed, blinkInterval, ledOn, pollRest>>

\* unsigned long now = getSystemMs(): the call, and noInterrupts();
GetMsMask ==
    /\ ppc = "get_ms"
    /\ ~Timer2IntPending
    /\ sregI' = FALSE
    /\ msHeld' = {systemMs}
    /\ tCopy' = <<>>
    /\ ppc' = "copy"
    /\ UNCHANGED <<pin, led, PressCounter, pressTime, Blink, lastFlashStart, lastEdge,
                   systemMs, OCF2A, loopNow, pressed, blinkInterval, ledOn, pollRest>>

\* t = systemMs; one byte per step
GetMsCopy ==
    /\ ppc = "copy"
    /\ ~Timer2IntPending
    /\ tCopy' = Append(tCopy, Bytes(systemMs)[Len(tCopy) + 1])
    /\ ppc' = IF Len(tCopy) = 3 THEN "unmask" ELSE "copy"
    /\ UNCHANGED <<pin, led, PressCounter, pressTime, Blink, lastFlashStart, lastEdge,
                   systemMs, sregI, OCF2A, loopNow, pressed, blinkInterval, ledOn,
                   msHeld, pollRest>>

\* interrupts();
GetMsUnmask ==
    /\ ppc = "unmask"
    /\ ~Timer2IntPending
    /\ sregI' = TRUE
    /\ ppc' = "ret"
    /\ UNCHANGED <<pin, led, PressCounter, pressTime, Blink, lastFlashStart, lastEdge,
                   systemMs, OCF2A, tCopy, loopNow, pressed, blinkInterval, ledOn,
                   msHeld, pollRest>>

\* return t;
GetMsReturn ==
    /\ ppc = "ret"
    /\ ~Timer2IntPending
    /\ loopNow' = FromBytes(tCopy)
    /\ ppc' = "press_test"
    /\ UNCHANGED <<pin, led, PressCounter, pressTime, Blink, lastFlashStart, lastEdge,
                   systemMs, sregI, OCF2A, tCopy, pressed, blinkInterval, ledOn,
                   msHeld, pollRest>>

getSystemMs == GetMsMask \/ GetMsCopy \/ GetMsUnmask \/ GetMsReturn

\* if (digitalRead(buttonPin) == LOW && !pressed) { pressed = true; pressTime = now; }
PollPress ==
    /\ ppc = "press_test"
    /\ ~Timer2IntPending
    /\ IF pin = LOW /\ ~pressed
       THEN pressed' = TRUE /\ pressTime' = loopNow
       ELSE UNCHANGED <<pressed, pressTime>>
    /\ ppc' = "release_test"
    /\ UNCHANGED <<pin, led, PressCounter, Blink, lastFlashStart, lastEdge,
                   systemMs, sregI, OCF2A, tCopy, loopNow, blinkInterval, ledOn,
                   msHeld, pollRest>>

\* The classification of the polling loop
PollClassify(duration) ==
    IF ~Lt32(U32(SHORT_PRESS_TIME), duration) THEN "Short"
    ELSE IF ~Lt32(U32(LONG_PRESS_TIME), duration) THEN "Medium"
    ELSE "Long"

\* if (PressCounter == 1) blinkInterval = 1000; else if (PressCounter == 2) ... else ...
PollInterval(count) ==
    IF count = 1 THEN U32(1000) ELSE IF count = 2 THEN U32(2000) ELSE U32(3000)

\* if (digitalRead(buttonPin) == HIGH && pressed) { ... classify the press ... }
PollRelease ==
    /\ ppc = "release_test"
    /\ ~Timer2IntPending
    /\ IF pin = HIGH /\ pressed
       THEN LET duration == Sub32(loopNow, pressTime)
                class    == PollClassify(duration)
            IN  /\ pressed' = FALSE
                /\ lastEdge' = class
                /\ CASE class = "Short" ->
                          /\ PressCounter' = IncInt16(PressCounter)
                          /\ led' = HIGH /\ ledOn' = TRUE /\ lastFlashStart' = loopNow
                          /\ UNCHANGED <<Blink, blinkInterval>>
                     [] class = "Medium" ->
                          /\ blinkInterval' = PollInterval(PressCounter)
                          /\ Blink' = TRUE
                          /\ led' = HIGH /\ ledOn' = TRUE /\ lastFlashStart' = loopNow
                          /\ UNCHANGED PressCounter
                     [] class = "Long" ->
                          /\ Blink' = FALSE /\ PressCounter' = 0
                          /\ led' = LOW /\ ledOn' = FALSE
                          /\ UNCHANGED <<blinkInterval, lastFlashStart>>
       ELSE UNCHANGED <<pressed, lastEdge, PressCounter, led, ledOn, lastFlashStart,
                        Blink, blinkInterval>>
    /\ ppc' = "led_off"
    /\ UNCHANGED <<pin, pressTime, systemMs, sregI, OCF2A, tCopy, loopNow, msHeld, pollRest>>

\* if (ledOn && (now - lastFlashStart >= interval)) { ... }
PollLedOff ==
    /\ ppc = "led_off"
    /\ ~Timer2IntPending
    /\ IF ledOn /\ ~Lt32(Sub32(loopNow, lastFlashStart), U32(POLL_FLASH_TIME))
       THEN led' = LOW /\ ledOn' = FALSE
       ELSE UNCHANGED <<led, ledOn>>
    /\ ppc' = "blink_test"
    /\ UNCHANGED <<pin, PressCounter, pressTime, Blink, lastFlashStart, lastEdge,
                   systemMs, sregI, OCF2A, tCopy, loopNow, pressed, blinkInterval,
                   msHeld, pollRest>>

\* if (Blink && !ledOn && (now - lastFlashStart >= blinkInterval)) { ... }
PollBlink ==
    /\ ppc = "blink_test"
    /\ ~Timer2IntPending
    /\ IF Blink /\ ~ledOn /\ ~Lt32(Sub32(loopNow, lastFlashStart), blinkInterval)
       THEN led' = HIGH /\ ledOn' = TRUE /\ lastFlashStart' = loopNow
       ELSE UNCHANGED <<led, ledOn, lastFlashStart>>
    /\ ppc' = "get_ms"
    /\ UNCHANGED <<pin, PressCounter, pressTime, Blink, lastEdge,
                   systemMs, sregI, OCF2A, tCopy, loopNow, pressed, blinkInterval,
                   msHeld, pollRest>>

\* loop() of the Timer2 variant
pollLoop ==
    \/ getSystemMs
    \/ PollPress
    \/ PollRelease
    \/ PollLedOff
    \/ PollBlink

\* The Timer2 variant with the button held since pressTime, zero or one short
\* press counted before, and loop() about to read the time
InitPoll ==
    /\ \E st \in PollStarts :
          /\ systemMs = st.ms
          /\ loopNow = st.ms
          /\ pressTime = Sub32(st.ms, U32(st.held))
    /\ PressCounter \in 0..1
    /\ pin = LOW /\ pressed = TRUE /\ led = LOW /\ ledOn = FALSE
    /\ Blink = FALSE /\ blinkInterval = U32(0) /\ lastFlashStart = U32(0)
    /\ sregI = TRUE /\ OCF2A = FALSE /\ tCopy = <<>> /\ ppc = "get_ms" /\ msHeld = {}
    /\ now = U32(0)
    /\ TCCR1A = {} /\ TCCR1B = {} /\ TCNT1 = 0 /\ OCR1A = 0 /\ TIMSK1 = {}
    /\ OCF1A = FALSE
    /\ lastISRTime = U32(0) /\ lastDuration = U32(0)
    /\ actionShort = FALSE /\ actionStart = FALSE /\ actionStop = FALSE
    /\ feedbackLedOn = FALSE
    /\ pc = "stop_test"
    /\ serialLine = NoLine
    /\ pressStartTime = U32(0) /\ shortPressCount = 0
    /\ rdBuf = <<>>
    /\ stopOverStart = FALSE
    /\ InitObs
    /\ InitGw

NextPoll ==
    \/ Timer2Match
    \/ Timer2ISR
    \/ PollButton
    \/ pollLoop

SpecPoll == InitPoll /\ [][NextPoll]_vars

\* The instants of a Medium press released 12 s after start-up and of the
\* flashes that follow it
IntervalInstants ==
    {12000 + d : d \in {0, 500, 999, 1000, 1500, 1999, 2000, 2500, 2999, 3000, 3999, 4000}}

\* Timer2 ticks served one after the other up to the next instant, each by
\* ISR(TIMER2_COMPA_vect)
Timer2Run ==
    /\ sregI /\ ~OCF2A
    /\ Later(IntervalInstants, Val(systemMs)) # {}
    /\ systemMs' = U32(NextInstant(IntervalInstants, Val(systemMs)))
    /\ msHeld' = IF ppc = "ret" THEN msHeld \cup {systemMs'} ELSE msHeld
    /\ UNCHANGED <<pin, led, PressCounter, pressTime, Blink, lastFlashStart, lastEdge,
                   sregI, OCF2A, tCopy, loopNow, pressed, blinkInterval, ledOn, ppc, pollRest>>

\* The Timer2 variant with any number of short presses counted, their flash
\* over, and the button held for 2 s since
InitInterval ==
    /\ systemMs = U32(12000) /\ loopNow = U32(12000)
    /\ pressTime = U32(10000)
    /\ PressCounter \in 0..MaxCount
    /\ lastFlashStart = IF PressCounter = 0 THEN U32(0) ELSE U32(9000)
    /\ pin = LOW /\ pressed = TRUE /\ led = LOW /\ ledOn = FALSE
    /\ Blink = FALSE /\ blinkInterval = U32(0)
    /\ sregI = TRUE /\ OCF2A = FALSE /\ tCopy = <<>> /\ ppc = "get_ms" /\ msHeld = {}
    /\ now = U32(0)
    /\ TCCR1A = {} /\ TCCR1B = {} /\ TCNT1 = 0 /\ OCR1A = 0 /\ TIMSK1 = {}
    /\ OCF1A = FALSE
    /\ lastISRTime = U32(0) /\ lastDuration = U32(0)
    /\ actionShort = FALSE /\ actionStart = FALSE /\ actionStop = FALSE
    /\ feedbackLedOn = FALSE
    /\ pc = "stop_test"
    /\ serialLine = NoLine
    /\ pressStartTime = U32(0) /\ shortPressCount = 0
    /\ rdBuf = <<>>
    /\ stopOverStart = FALSE
    /\ InitObs
    /\ InitGw

NextInterval ==
    \/ Timer2Run
    \/ PollButton
    \/ pollLoop

SpecInterval == InitInterval /\ [][NextInterval]_vars

----------------------------------------------------------------------------
(* Properties of part_000 (specification Spec)                             *)

\* a step of buttonISR (the pin changes in no other step)
ButtonStep == pin' # pin

\* a step of ISR(TIMER1_COMPA_vect) (nothing else clears the match flag)
TimerISRStep == OCF1A /\ ~OCF1A'

\* a step of loop()
LoopStep == pc' # pc

D1500 == U32(1500)
D4000 == U32(4000)

ShortBranch ==
    /\ UNCHANGED <<actionStart, actionStop>>
    /\ IF Blink THEN UNCHANGED <<PressCounter, actionShort>>
                ELSE PressCounter' = PressCounter + 1 /\ actionShort'

MediumBranch == actionStart' /\ UNCHANGED <<PressCounter, actionShort, actionStop>>

LongBranch == actionStop' /\ UNCHANGED <<PressCounter, actionShort, actionStart>>

C1_Witness1499 == lastEdge = "Short" /\ lastDuration = U32(1499) /\ actionShort
C1_Witness3999 == lastEdge = "Medium" /\ lastDuration = U32(3999) /\ actionStart
C1_Witness4000 == lastEdge = "Long" /\ lastDuration = D4000 /\ actionStop

IsLine(kind) == serialLine # NoLine /\ serialLine[1] = kind

Timer1Off == ~Timer1Running /\ "OCIE1A" \notin TIMSK1

(* C2: a Medium press dispatched while PressCounter = 0 and Blink = FALSE  *)
(* changes nothing but actionStart: the statements of the dispatch leave   *)
(* Blink, PressCounter, the Timer1 registers, the LED and the flash alone, *)
(* take the else-if branch and print the ERROR line.                       *)
C2_MediumWithoutCount ==
    [][ (LoopStep /\ pc \in {"start_clr", "start_if", "start_elif"}
                  /\ ~Blink /\ PressCounter = 0) =>
        /\ UNCHANGED <<Blink, PressCounter, led, timerRegs, OCF1A, feedbackLedOn,
                       lastFlashStart, actionShort, actionStop, pressTime,
                       lastISRTime, lastDuration>>
        /\ pc = "start_clr" => (~actionStart' /\ pc' = "start_if")
        /\ pc = "start_if" => (pc' = "start_elif" /\ serialLine' = NoLine
                                /\ UNCHANGED actionStart)
        /\ pc = "start_elif" => (IsLine("ERROR")' /\ pc' = "stop_test"
                                  /\ UNCHANGED actionStart) ]_vars

\* the ERROR line has just been printed, nothing started
C2_Witness ==
    /\ IsLine("ERROR") /\ pc = "stop_test"
    /\ ~Blink /\ PressCounter = 0 /\ Timer1Off /\ led = LOW /\ lastEdge = "Medium"

StopReturns == pc = "stop_call" /\ pc' = "short_test"

StopPost ==
    /\ PressCounter = 0 /\ ~Blink /\ ~feedbackLedOn /\ led = LOW
    /\ Timer1Off /\ TCCR1A = {} /\ TCNT1 = 0

C4_StopIdempotent ==
    [][ (StopReturns /\ stops >= 1) => (ResetFields' = stopSnap) ]_vars

\* two stops have been dispatched in succession
C4_Witness == stops = 2 /\ pc = "short_test" /\ ResetFields = stopSnap

Accepted(edge) == edge \notin {"none", "rejected"}

D50 == U32(50)

(* C5: buttonISR accepts a raw transition iff at least 50 ms    *)
(* have elapsed since the last accepted transition (a transition with no   *)
(* accepted transition before it has nothing to wait for).                 *)
C5_DebounceSinceAccepted ==
    [][ ButtonStep =>
        (Accepted(lastEdge') <=>
            (lastEdge = "none" \/ ~Lt32(Sub32(now, acceptedAt), D50))) ]_vars

(* The debounce test as buttonISR has it: a raw transition is accepted iff *)
(* at least 50 ms have elapsed since the last accepted transition, or      *)
(* since boot (millis() = 0) when none has been accepted yet; an accepted  *)
(* transition produces its event (press start recorded, or release         *)
(* classified), a rejected one produces none.                              *)
DebounceSinceAcceptedOrBoot ==
    [][ ButtonStep =>
        /\ Accepted(lastEdge') <=> ~Lt32(Sub32(now, acceptedAt), D50)
        /\ Accepted(lastEdge') =>
               /\ lastISRTime' = now
               /\ pin' = HIGH => (pressTime' = now /\ lastEdge' = "PressStarted")
               /\ pin' = LOW => lastDuration' = Sub32(now, pressTime)
        /\ ~Accepted(lastEdge') => UNCHANGED isrVars ]_vars

\* a transition 49 ms after an accepted one has been rejected
DebounceRejected49 == lastEdge = "rejected" /\ Sub32(now, acceptedAt) = U32(49)

\* a transition exactly 50 ms after an accepted one has been accepted
DebounceAccepted50 == Accepted(lastEdge) /\ lastISRTime = U32(100) /\ pressTime = U32(50)

StartDispatched ==
    ~actionStart /\ pc \notin {"start_clr", "start_if", "start_blink", "start_timer", "start_elif"}

(* C6: from the initial state, three counted Short presses followed by one *)
(* Medium press lead, once loop has dispatched them, to Blink = TRUE with  *)
(* PressCounter = 3 and Timer1 in CTC mode, prescaler 1024, compare        *)
(* interrupt enabled and OCR1A = 7812*3 - 1; from then on every run of the *)
(* Timer1 handler toggles the LED.                                         *)
C6_Sequence ==
    /\ [](scen = 4 /\ StartDispatched =>
            /\ Blink /\ PressCounter = 3
            /\ OCR1A = 7812 * 3 - 1
            /\ TCCR1A = {} /\ TCCR1B = {"WGM12", "CS12", "CS10"}
            /\ "OCIE1A" \in TIMSK1)
    /\ [][ (scen = 4 /\ StartDispatched /\ TimerISRStep) => led' = 1 - led ]_vars

\* the sequence, its last press held 1500 ms, has been dispatched and the
\* handler has turned the LED on
C6_Witness ==
    /\ scen = 4 /\ StartDispatched /\ Blink /\ PressCounter = 3
    /\ pressTime = U32(SeqHoldStart) /\ lastDuration = D1500
    /\ ~feedbackLedOn /\ led = HIGH /\ TCNT1 = OCR1A

(* C7: a Short press received while Blink is true does not increment       *)
(* PressCounter, sets no action flag and writes neither the LED nor the    *)
(* flash state nor Timer1.                                                 *)
C7_ShortWhileBlinking ==
    [][ (ButtonStep /\ pin' = LOW /\ Accepted(lastEdge') /\ Blink
                    /\ Lt32(Sub32(now, pressTime), D1500)) =>
        UNCHANGED <<PressCounter, actionShort, actionStart, actionStop,
                    led, feedbackLedOn, lastFlashStart, timerRegs, OCF1A, Blink>> ]_vars

\* a Short press has been received while blinking
C7_Witness == lastEdge = "ShortIgnored" /\ Blink /\ Timer1Running /\ ~actionShort

(* C8: the one-shot flash never fights the periodic blink: feedbackLedOn   *)
(* and Blink are never both true.                                          *)
C8_NoFlashWhileBlinking == ~(feedbackLedOn /\ Blink)

(* C9: the Timer1 handler toggles the LED only where Blink is true, and    *)
(* performs no toggle from a dispatched stop until the next Medium press   *)
(* is dispatched with PressCounter > 0.                                    *)
C9_ToggleOnlyWhileBlinking ==
    [][ /\ (TimerISRStep /\ led' # led) => (Blink /\ ~stopped)
        /\ StopReturns => stopped'
        /\ (stopped /\ ~stopped') => (pc = "start_blink" /\ PressCounter > 0 /\ Blink') ]_vars

\* a compare match is still flagged after the stop
C9_Witness == stopped /\ OCF1A /\ ~Blink /\ led = LOW

(* C11: whenever actionStop is set, loop() running on, the system reaches  *)
(* a state with Blink false, PressCounter = 0, the LED LOW and the Timer1  *)
(* compare interrupt disabled, whatever toggles or button events come      *)
(* before the stop is dispatched.                                          *)
C11_StopEventually ==
    actionStop ~> (~Blink /\ PressCounter = 0 /\ led = LOW /\ "OCIE1A" \notin TIMSK1)

\* a stop has been dispatched over a blink whose compare match was in flight
C11_Witness ==
    /\ pc = "short_test" /\ stopped /\ ~actionStop /\ lastEdge = "Long"
    /\ OCF1A /\ OCR1A = CompareValue(1)
    /\ ~Blink /\ PressCounter = 0 /\ led = LOW /\ "OCIE1A" \notin TIMSK1

(* C13: the value of lastDuration that loop() prints for a Short press      *)
(* (line 160) is a value lastDuration held while loop() was loading it.     *)
C13_NoTornDuration ==
    pc = "short_print" => FromBytes(rdBuf) \in rdHeld

(* C14: each of actionShort, actionStart and actionStop goes from false to  *)
(* true only in a step of buttonISR and from true to false only in a step  *)
(* of loop(); the Timer1 handler and the passing of time write none of     *)
(* them.                                                                   *)
C14_FlagDiscipline ==
    [][ \A f \in {<<actionShort, actionShort'>>, <<actionStart, actionStart'>>,
                  <<actionStop, actionStop'>>} :
            /\ (~f[1] /\ f[2]) => ButtonStep
            /\ (f[1] /\ ~f[2]) => (LoopStep /\ ~ButtonStep /\ ~TimerISRStep) ]_vars

\* loop has cleared actionShort, and buttonISR has then set actionStart
C14_Witness ==
    pc = "short_flash" /\ ~actionShort /\ actionStart /\ lastEdge = "Medium"

(* C16: a transition that buttonISR rejects, because it arrives less than  *)
(* 50 ms after the last accepted transition, leaves lastISRTime, pressTime, *)
(* PressCounter, lastDuration and the three flags unchanged; rejected       *)
(* transitions do not extend the window: a transition at least 50 ms after  *)
(* the last accepted one is accepted, however many were rejected between.   *)
C16_ClassicDebounce ==
    [][ ButtonStep =>
        /\ Lt32(Sub32(now, acceptedAt), D50) =>
               (lastEdge' \in {"none", "rejected"} /\ UNCHANGED isrVars)
        /\ (lastEdge = "rejected" /\ ~Lt32(Sub32(now, acceptedAt), D50)) =>
               (Accepted(lastEdge') /\ lastISRTime' = now) ]_vars

\* a press was accepted at 50 ms, its release bounced inside the window and
\* was rejected, and the window has run out at 100 ms
C16_Witness ==
    /\ lastEdge = "rejected" /\ pin = LOW /\ now = U32(2 * DEBOUNCE_TIME)
    /\ acceptedAt = U32(DEBOUNCE_TIME) /\ lastISRTime = U32(DEBOUNCE_TIME)
    /\ pressTime = U32(DEBOUNCE_TIME) /\ lastDuration = U32(0)

(* C17: while the LED blinks on a count n > 0, the compare register holds   *)
(* 7812*n - 1, so that Timer1 toggles the LED every n x 500 ms, for every   *)
(* n the counter holds.                                                     *)
C17_PeriodExact ==
    (Blink /\ Timer1Running /\ PressCounter > 0) => OCR1A = TICKS_HALF_SEC * PressCounter - 1

\* The true press lengths and the class buttonISR is to give them
TrueClass(ms) ==
    LET class == IF ms < SHORT_PRESS_TIME THEN "Short"
                 ELSE IF ms < LONG_PRESS_TIME THEN "Medium" ELSE "Long"
    IN  IF class = "Short" /\ Blink THEN "ShortIgnored" ELSE class

\* Every elapsed time computed in a step is the true one, the timestamps
\* being from before or after the wrap
WrapElapsedTrue ==
    /\ (ButtonStep /\ lastEdge # "none") =>
           /\ (lastEdge' = "rejected") <=> (Off(now) - Off(lastISRTime) < DEBOUNCE_TIME)
           /\ (Accepted(lastEdge') /\ pin' = LOW) =>
                  /\ lastDuration' = U32(Off(now) - Off(pressTime))
                  /\ lastEdge' = TrueClass(Off(now) - Off(pressTime))
    /\ (pc = "flash_test" /\ pc' # pc /\ feedbackLedOn) =>
           (~feedbackLedOn' <=> (Off(now) - Off(lastFlashStart) >= FLASH_TIME))

\* The press at 0xFFFFFFF0 and the transition at 0x00000010 that follows it
WrapExamplePress == pressTime = Add32(WrapBase, U32(240)) /\ lastISRTime = pressTime /\ pin = HIGH

(* C15 as stated: every elapsed time computed across the wrap is the true   *)
(* one, and a press at 0xFFFFFFF0 released at 0x00000010 has duration 0x20  *)
(* and is classified Short.                                                 *)
C15_WrapExample ==
    [][ /\ WrapElapsedTrue
        /\ (ButtonStep /\ WrapExamplePress /\ now = U32(16)) =>
               (lastDuration' = U32(32) /\ lastEdge' \in {"Short", "ShortIgnored"}) ]_vars

(* C15: the debounce check, the press duration and the flash timeout yield  *)
(* the true elapsed time when millis() wraps between the two timestamps; a  *)
(* press at 0xFFFFFFF0 whose release is seen at 0x00000010 is discarded by  *)
(* the debounce, and released at 0x00000022 it has duration 0x32 and is     *)
(* classified Short.                                                        *)
C15_WrapTolerant ==
    [][ /\ WrapElapsedTrue
        /\ (ButtonStep /\ WrapExamplePress /\ now = U32(16)) =>
               (lastEdge' = "rejected" /\ UNCHANGED isrVars)
        /\ (ButtonStep /\ WrapExamplePress /\ now = U32(34)) =>
               (lastDuration' = U32(50) /\ lastEdge' \in {"Short", "ShortIgnored"}) ]_vars

\* the press at 0xFFFFFFF0 has been released at 0x00000022 and counted, and
\* a flash started before the wrap has run out after it
C15_Witness ==
    /\ lastEdge = "Short" /\ now = U32(34) /\ lastISRTime = now
    /\ pressTime = Add32(WrapBase, U32(240)) /\ lastDuration = U32(50)
    /\ PressCounter = 2 /\ ~feedbackLedOn /\ lastFlashStart = Add32(WrapBase, U32(50))

(* C20: in every state where no stop is pending (actionStop clear and loop *)
(* not in the middle of dispatching one), PressCounter equals the number   *)
(* of Short releases buttonISR accepted while Blink was false since the    *)
(* most recent Long release.                                               *)
C20_CountSinceLong ==
    (~actionStop /\ pc \notin {"stop_clr_start", "stop_call"}) =>
        PressCounter = shortsSinceLong

\* The last accepted transition is a press start: pressTime is its timestamp
PressOpen == pressTime = lastISRTime

(* C21: at every release that buttonISR accepts and classifies, some       *)
(* transition having been accepted before it, pressTime is the timestamp   *)
(* of a press start accepted after the previously accepted release: the    *)
(* last accepted transition before the release is the press it ends.       *)
C21_DurationBase ==
    [][ (ButtonStep /\ lastEdge # "none" /\ Accepted(lastEdge') /\ pin' = LOW)
            => PressOpen ]_vars

(* C22 as claimed: once Blink is true it stays true, with the Timer1        *)
(* compare interrupt enabled, in every later state until loop dispatches    *)
(* actionStop.                                                              *)
C22_BlinkPersistsArmed ==
    /\ [](Blink => "OCIE1A" \in TIMSK1)
    /\ [][ (Blink /\ ~Blink') => StopReturns ]_vars

(* C22: once Blink is true it stays true until loop dispatches actionStop   *)
(* (only the stopTimer call of line 152 clears it), and the Timer1 compare  *)
(* interrupt is enabled in every such state from the return of startTimer   *)
(* on: it is still disabled between Blink = true (line 188) and the call of *)
(* startTimer (line 189).                                                   *)
C22_BlinkPersists ==
    /\ []((Blink /\ pc # "start_timer") => "OCIE1A" \in TIMSK1)
    /\ [][ (Blink /\ ~Blink') => StopReturns ]_vars
    /\ [][ (Blink /\ "OCIE1A" \in TIMSK1 /\ "OCIE1A" \notin TIMSK1') => StopReturns ]_vars

\* the LED blinks on after a toggle and a Short press that was not counted
C22_Witness ==
    /\ Blink /\ "OCIE1A" \in TIMSK1 /\ Timer1Running /\ led = HIGH
    /\ lastEdge = "ShortIgnored" /\ pc = "stop_test" /\ ~feedbackLedOn

C30_LedHighOnlyWhenActive ==
    led = HIGH => (Blink \/ feedbackLedOn)

(* C30: if the LED is HIGH then Blink is true, or feedbackLedOn is true, or *)
(* loop() has written the LED HIGH for a flash (line 164) and is about to   *)
(* set feedbackLedOn (line 165); otherwise the LED is LOW.                  *)
C30_LedHighOnlyWhenActiveOrFlagging ==
    led = HIGH => (Blink \/ feedbackLedOn \/ pc = "short_flag")

\* the flash of a counted press is on, and nothing blinks
C30_Witness ==
    /\ led = HIGH /\ feedbackLedOn /\ ~Blink /\ pc = "short_stamp"
    /\ PressCounter = 1 /\ lastEdge = "Short"

(* C29: a Medium press dispatched while Blink is already true changes      *)
(* nothing but actionStart: the statements of the actionStart branch leave *)
(* Blink, PressCounter, the Timer1 registers (period and counter), the LED *)
(* and the flash alone and print no line.                                  *)
C29_MediumWhileBlinking ==
    [][ (LoopStep /\ pc \in {"start_clr", "start_if", "start_elif"} /\ Blink) =>
        /\ UNCHANGED <<Blink, PressCounter, led, timerRegs, OCF1A, feedbackLedOn,
                       lastFlashStart, actionShort, actionStop, pressTime,
                       lastISRTime, lastDuration>>
        /\ serialLine' = NoLine
        /\ pc = "start_clr" => (~actionStart' /\ pc' = "start_if")
        /\ pc = "start_if" => (pc' = "start_elif" /\ UNCHANGED actionStart)
        /\ pc = "start_elif" => (pc' = "stop_test" /\ UNCHANGED actionStart) ]_vars

\* a Medium press is being dispatched while the LED blinks: the first test failed
C29_Witness ==
    /\ pc = "start_elif" /\ Blink /\ Timer1Running /\ "OCIE1A" \in TIMSK1
    /\ ~actionStart /\ lastEdge = "Medium" /\ PressCounter > 0

----------------------------------------------------------------------------
(* Properties of the Timer2 variant of RoniMain.cpp (specification SpecPoll) *)

(* C12: every call of getSystemMs returns a value that systemMs held at     *)
(* some instant during the call, whatever ticks interleave with it.         *)
C12_NoTornTime ==
    [][ (ppc = "ret" /\ ppc' = "press_test") => loopNow' \in msHeld ]_vars

\* a call has returned 0x0000FFFF and the tick that arrived during the copy
\* has since carried systemMs to 0x00010000
C12_Witness ==
    /\ ppc = "press_test" /\ loopNow = U32(Pow16 - 1)
    /\ systemMs = U32(Pow16) /\ msHeld = {U32(Pow16 - 1), U32(Pow16)}

\* a release the polling loop classifies in this step, and its duration
PollReleaseStep == ppc = "release_test" /\ ppc' = "led_off" /\ pin = HIGH /\ pressed

PollDuration == Sub32(loopNow, pressTime)

(* C18: in the Timer2 polling loop a release with duration exactly 1500 ms  *)
(* is classified Medium (blinking is started, the count is kept) and a      *)
(* release with duration exactly 4000 ms is classified Long (blinking off,  *)
(* count reset, LED LOW).                                                   *)
C18_EarlierBoundaries ==
    [][ PollReleaseStep =>
        /\ PollDuration = D1500 =>
               (lastEdge' = "Medium" /\ Blink' /\ PressCounter' = PressCounter)
        /\ PollDuration = D4000 =>
               (lastEdge' = "Long" /\ ~Blink' /\ PressCounter' = 0 /\ led' = LOW) ]_vars

(* C19: in the Timer2 polling loop a Medium press (longer than 1500 ms and  *)
(* shorter than 4000 ms) released with no short press counted does not      *)
(* alter state: blinking stays disabled, the LED is not driven and no blink *)
(* period is configured.                                                    *)
C19_MediumWithoutCountEarlier ==
    [][ (PollReleaseStep /\ PressCounter = 0
            /\ Lt32(D1500, PollDuration) /\ Lt32(PollDuration, D4000)) =>
        UNCHANGED <<Blink, led, ledOn, blinkInterval, lastFlashStart, PressCounter>> ]_vars

----------------------------------------------------------------------------
(* Properties of the humidity gateway *)

\* the Nano reads a line in this step
NanoReadsLine == nano.task = "command" /\ toNano # <<>> /\ toNano' = Tail(toNano)

HumOf(n) == <<n.currentHum, n.minHum, n.maxHum>>

(* C23: when the Nano reads the command line R:1 (white space around it    *)
(* aside, such as the carriage return println adds), minHum = maxHum =     *)
(* currentHum afterwards, currentHum as it was; a line starting with M:    *)
(* changes none of currentHum, minHum, maxHum; any other line changes      *)
(* nothing: values, LCD and sensor interval stay and nothing is printed.   *)
C23_NanoCommands ==
    [][ NanoReadsLine =>
           LET line == Trim(Head(toNano))
           IN  /\ line = CmdReset =>
                      HumOf(nano') = <<nano.currentHum, nano.currentHum, nano.currentHum>>
               /\ (line # CmdReset /\ StartsWith(line, CmdMsg)) => HumOf(nano') = HumOf(nano)
               /\ (line # CmdReset /\ ~StartsWith(line, CmdMsg)) =>
                      /\ nano' = [nano EXCEPT !.task = "sensor"]
                      /\ UNCHANGED <<hub, toHub>> ]_vars

\* a reset at 50.5 % has cleared a history that went down to 40.0 %, which the
\* ESP32 still shows
C23_Witness ==
    /\ resetHum = 5050 /\ HumOf(nano) = <<5050, 5050, 5050>>
    /\ hub.minHum = 4000 /\ hub.maxHum = 5050
    /\ toNano = <<>>

(* C24: the ESP32 loop that reads a telemetry line the Nano printed from   *)
(* three one-decimal values stores exactly these three values.             *)
C24_TelemetryRoundTrip ==
    [][ (toHub # <<>> /\ toHub' = Tail(toHub)) => HumOf(hub') = HumOf(nano) ]_vars

\* 45.3, 9.9 and 100.0 have arrived
C24_Witness ==
    /\ HumOf(nano) = <<4530, 990, 10000>> /\ HumOf(hub) = <<4530, 990, 10000>>
    /\ toHub = <<>>

MaxOf(a, b) == IF a > b THEN a ELSE b

(* C25 as claimed: after the Nano has processed the R:1 of a reset request *)
(* at humidity h, the ESP32's minHum and maxHum eventually both equal h.   *)
C25_ResetShownAsIs ==
    \A h \in Readings \cup {0} :
        (resetHum = h) ~> (hub.minHum = h /\ hub.maxHum = h)

(* C25: with a reliable link and valid readings, the R:1 that /api/reset   *)
(* sends is eventually processed by the Nano; the first telemetry line     *)
(* after a reset at humidity h comes from the next reading h2 and carries  *)
(* Min = min(h, h2) and Max = max(h, h2); and the ESP32's minHum and       *)
(* maxHum eventually are the min and max of h and its currentHum.          *)
C25_ResetReachesHub ==
    /\ (toNano # <<>> /\ Trim(Head(toNano)) = CmdReset) ~> (resetHum # NoReset)
    /\ [][ (resetHum # NoReset /\ nano' # nano) =>
              /\ nano'.minHum = MinOf(resetHum, nano'.currentHum)
              /\ nano'.maxHum = MaxOf(resetHum, nano'.currentHum)
              /\ toHub' = toHub \o Println(TelemetryLine(nano'.currentHum, nano'.minHum,
                                                         nano'.maxHum)) ]_vars
    /\ \A h \in Readings \cup {0} :
          (resetHum = h) ~> /\ hub.minHum = MinOf(h, hub.currentHum)
                            /\ hub.maxHum = MaxOf(h, hub.currentHum)

\* the Nano has processed a reset at 40.0 %; the ESP32 still shows the
\* history from 40.0 % to 50.5 %
C25_Witness ==
    /\ resetHum = 4000 /\ HumOf(nano) = <<4000, 4000, 4000>>
    /\ hub.minHum = 4000 /\ hub.maxHum = 5050

(* C26: in every loop iteration of the ESP32 (I2C master) in which the     *)
(* WiFi link is not connected at the WiFi check, loop calls setupWiFi.     *)
C26_ReconnectWhenDown ==
    [][ (esp32.pc = "wifi" /\ esp32'.pc # "wifi" /\ ~wifiStatus) =>
            esp32'.pc = "wifi_begin" ]_vars

\* the bytes after the length byte of the frame in the receive buffer
Payload == SubSeq(wire.bytes, 3, Len(wire.bytes))

\* the handler runs on an 'M' frame that has a length byte
HandlesMessage ==
    wire.pending /\ ~wire'.pending /\ Len(wire.bytes) >= 2 /\ wire.bytes[1] = "M"

\* min(length byte, 20, payload bytes available)
Taken == MinOf(MinOf(wire.bytes[2], 20), Len(Payload))

ShownOnLcd(n) == n.lcd[1] \o n.lcd[2]

(* C27 as claimed: for every 'M' frame handleI2CReceive displays exactly   *)
(* the first min(length byte, 20, payload bytes available) payload         *)
(* characters, the terminator is written at index 20 at most, and the      *)
(* ESP32 sends at most 20 message characters.                              *)
C27_MessageShownWhole ==
    /\ [][ HandlesMessage =>
              /\ ShownOnLcd(nanoI2c') = SubSeq(Payload, 1, Taken)
              /\ Len(nanoI2c'.message) <= MESSAGE_SIZE ]_vars
    /\ [](wire.web => Len(Payload) <= 20)

(* C27: for every 'M' frame that has a length byte, handleI2CReceive       *)
(* copies the first min(length byte, 20, payload bytes available) payload  *)
(* bytes and displays them up to the first byte 0 among them (all of them  *)
(* if there is none); the terminator is written at index 20 at most; the   *)
(* ESP32 sends at most 20 message characters, and their number as the      *)
(* length byte.                                                            *)
C27_MessageShown ==
    /\ [][ HandlesMessage =>
              LET copied == SubSeq(Payload, 1, Taken)
                  shown  == ShownOnLcd(nanoI2c')
              IN  /\ Len(shown) <= Len(copied)
                  /\ shown = SubSeq(copied, 1, Len(shown))
                  /\ \A k \in 1..Len(shown) : shown[k] # NUL
                  /\ Len(shown) < Len(copied) => copied[Len(shown) + 1] = NUL
                  /\ Len(nanoI2c'.lcd[1]) <= 16
                  /\ nanoI2c'.message = Append(copied, NUL)
                  /\ Len(nanoI2c'.message) <= MESSAGE_SIZE ]_vars
    /\ [](wire.web => (Len(Payload) <= 20 /\ wire.bytes[2] = Len(Payload)))

\* a frame with length byte 255 and 30 payload bytes was cut to 20
\* characters, 16 on the first line
C27_Witness ==
    /\ ~wire.pending /\ wire.bytes = <<"M", 255>> \o Chars("w", 30)
    /\ nanoI2c.message = Append(Chars("w", 20), NUL)
    /\ nanoI2c.lcd = <<Chars("w", 16), Chars("w", 4)>>

----------------------------------------------------------------------------
(* Stop over a pending start (part_000) *)

\* loop() finishes an iteration in this step
IterationEnds == pc # "stop_test" /\ pc' = "stop_test"

----------------------------------------------------------------------------
(* Blink interval of the Timer2 variant (RoniMain.cpp, lines 88-196) *)

\* the polling loop tests the blink condition in this step
PollBlinkStep == ppc = "blink_test" /\ ppc' = "get_ms"

PollElapsed == Sub32(loopNow, lastFlashStart)

(* C32: in the Timer2 polling loop a Medium press classified with          *)
(* PressCounter = n > 0 sets blinkInterval to n x 1000 ms; and while Blink *)
(* is true a new flash starts (LED HIGH, lastFlashStart = now) at the      *)
(* blink test once blinkInterval ms have elapsed since lastFlashStart, and *)
(* not before.                                                             *)
C32_IntervalByCount ==
    /\ [][ (PollReleaseStep /\ PressCounter > 0
               /\ PollClassify(PollDuration) = "Medium") =>
            blinkInterval' = U32(PressCounter * 1000) ]_vars
    /\ [][ (PollBlinkStep /\ Blink) =>
            IF ~Lt32(PollElapsed, blinkInterval)
            THEN led' = HIGH /\ ledOn' /\ lastFlashStart' = loopNow
            ELSE UNCHANGED <<led, ledOn, lastFlashStart>> ]_vars

----------------------------------------------------------------------------
(* Min/max tracking of the Nano node (Nano_Humidity_Controller.ino) *)

\* the sensor task of the Nano sends a telemetry line in this step
SendsTelemetry == nano.task = "sensor" /\ nano' # nano /\ toHub' # toHub

Lowest(set) == CHOOSE x \in set : \A y \in set : x <= y

Highest(set) == CHOOSE x \in set : \A y \in set : x >= y

(* C33: every telemetry line the Nano sends reports as Min the minimum and *)
(* as Max the maximum of the valid readings taken since the most recent    *)
(* R:1 (the reading current at it counting as the first), since boot if    *)
(* there was none.                                                         *)
C33_MinMaxSinceReset ==
    [][ SendsTelemetry =>
          toHub' = toHub \o Println(TelemetryLine(nano'.currentHum, Lowest(sinceReset'),
                                                  Highest(sinceReset'))) ]_vars

----------------------------------------------------------------------------
(* Lines the ESP32 does not parse (WROVER_Web_Hub.ino) *)

\* the ESP32's loop reads a line in this step
HubReadsLine == toHub # <<>> /\ toHub' = Tail(toHub)

HasPrefix(line, text) ==
    Len(line) >= Len(text) /\ SubSeq(line, 1, Len(text)) = text

Contains(line, text) ==
    \E i \in 1..(Len(line) - Len(text) + 1) : SubSeq(line, i, i + Len(text) - 1) = text

----------------------------------------------------------------------------
(* Readings that are not a number (both Nano sketches) *)

\* the UART node runs its sensor task with the interval elapsed
UartReads == nano.task = "sensor" /\ nano.due /\ nano'.task = "command"

\* the I2C node calls readHumiditySensor
I2cReads == nanoI2c.due /\ ~nanoI2c'.due

(* C35: when the DHT read returns NaN the UART node leaves currentHum,     *)
(* minHum and maxHum unchanged, sends no telemetry line, leaves its LCD    *)
(* as it is and restarts the sensor interval; the I2C node leaves          *)
(* currentHumidity and its LCD unchanged.                                  *)
C35_NanIgnored ==
    /\ [][ (UartReads /\ nano'.h = NaN) =>
               /\ HumOf(nano') = HumOf(nano)
               /\ nano'.lcd = nano.lcd
               /\ toHub' = toHub
               /\ ~nano'.due ]_vars
    /\ [][ (I2cReads /\ nanoI2c'.humidity = NaN) =>
               /\ nanoI2c'.currentHumidity = nanoI2c.currentHumidity
               /\ nanoI2c'.lcd = nanoI2c.lcd ]_vars

\* both nodes hold the reading 40.0 and the read that followed it failed
C35_Witness ==
    /\ nano.h = NaN /\ HumOf(nano) = <<4000, 4000, 4000>> /\ ~nano.due
    /\ nano.task = "command" /\ toHub = <<>>
    /\ nanoI2c.humidity = NaN /\ nanoI2c.currentHumidity = 4000 /\ ~nanoI2c.due

----------------------------------------------------------------------------
(* The humidity sent to the I2C master (Arduino_Nano.ino) *)

(* C36: the 4 bytes sendHumidityToMaster sends encode a humidity that      *)
(* readHumiditySensor stored (one of the readings) or the initial 0.0,     *)
(* never a currentHumidity that is half-written.                           *)
C36_SendsStoredValue ==
    nanoI2c.sent # <<>> => \E v \in Readings \cup {0} : nanoI2c.sent = FloatBytes(v)

----------------------------------------------------------------------------
(* Properties of main.cpp (specification SpecMain)                         *)

(* C10: stop leaves no stray toggle: once stopSystem has forced the LED    *)
(* LOW the Timer1 handler does not toggle it again until blinking is       *)
(* re-enabled, also when a compare match was pending when the stop began.  *)
C10_NoStrayToggleMain ==
    [][ (TimerISRStep /\ led' # led) => ~stopped ]_vars

TypeOK ==
    /\ \/ now \in {U32(t) : t \in Instants \cup MainInstants \cup SeqInstants \cup LiveInstants
                                      \cup AfterInstants \cup PeriodInstants \cup TornInstants}
       \/ now \in {Add32(WrapBase, U32(k)) : k \in WrapOffsets}
    /\ pin \in {LOW, HIGH} /\ led \in {LOW, HIGH}
    /\ OCR1A \in 0..(Pow16 - 1) /\ TCNT1 \in 0..(Pow16 - 1)
    /\ PressCounter \in -32768..32767
    /\ Blink \in BOOLEAN /\ feedbackLedOn \in BOOLEAN

====
